---- MODULE Spec2Model ----
(***************************************************************************)
(* Model of the mqtt-automation orchestrator: the Go script engine         *)
(* (pkg/scripts: GoScriptEngine, MQTTScriptClient, ResponseWaiter, the      *)
(* built-in scripts) and the YAML step engine (pkg/engine: ScriptEngine).  *)
(* A server process wires exactly one of the two engines to the broker     *)
(* client (cmd/server/main.go:65-68); the variable `engine` says which.    *)
(*                                                                         *)
(* Strings built with fmt.Sprintf are modelled as token sequences, one     *)
(* token per formatted argument or literal segment, so that                *)
(* strings.HasPrefix becomes a prefix test on sequences.                   *)
(* The ScriptExecution records are written without a lock, so the          *)
(* assignments of a goroutine to a record are steps of their own. What a   *)
(* goroutine does between two such steps on its own data (the script's     *)
(* logic, building and registering a command in its own facade) is part    *)
(* of the step that follows.                                               *)
(***************************************************************************)
EXTENDS Integers, Sequences, FiniteSets, TLC

\* ---------------------------------------------------------------- bounds
MaxRuns == 2
MaxClock == 2
MaxCancels == 1
MaxRejects == 1
MaxDelivered == 3
MaxFiles == 3
MaxTicks == 5
DaysPerTick == 15
MaxRecords == 3
MaxHourTicks == 4
HoursPerTick == 12
MaxDeliverers == 2
MaxCmds == 2
MaxRounds == 1
MaxCommands == 3
MaxSeconds == 1
TicksPerSecond == 2

\* ------------------------------------------------------- program constants
Registered == {"screenshot", "find_and_click", "wait", "custom"}
Terminal == {"completed", "failed", "cancelled"}
Runs == 1..MaxRuns
NoCmd == [id |-> <<>>, type |-> "none", run |-> 0, topic |-> <<>>, x |-> 0, y |-> 0]
EmptyChan == [buf |-> <<>>, closed |-> FALSE]

\* What the API callers do in one life of the process: how many ExecuteScript
\* calls they make, how many CancelExecution calls of a running execution
\* (the YAML engine has no such call) and how many of their requests to the
\* Go server are ones it rejects.
Workloads ==
    {[runs |-> MaxRuns, cancels |-> 0, rejects |-> 0],
     [runs |-> 1, cancels |-> MaxCancels, rejects |-> 0],
     [runs |-> 1, cancels |-> 0, rejects |-> MaxRejects]}

VARIABLES
    engine,         \* which engine the process wired to the broker client
    workload,       \* what the API callers do in this life of the process
    clock,          \* the wall clock, in ticks
    nruns,          \* ExecuteScript calls accepted so far (records allocated)
    execution,      \* the ScriptExecution records, by allocation index
    executions,     \* gse.executions: execution id -> record
    responseChans,  \* responseChans: execution id -> the run whose sink it maps to
    sink,           \* the buffer of the sink ExecuteScript made for each run
    files,          \* the persistence directory: execution id -> saved status
    rchan,          \* YAML engine: the sink a run's executeCommand holds (0: nil)
    pc,             \* position of each script goroutine
    spc,            \* position inside the script function
    sres,           \* the script function's outcome: "", "success", "fail", "panic"
    pending,        \* rw.pendingCommands of each run's facade: set of command ids
    curCmd,         \* the command the facade's executeCommand is handling
    wchan,          \* the channel executeCommand waits on
    published,      \* commands handed to the broker that no agent has answered yet
    outstanding,    \* per run: published commands whose wait has not returned
    ret,            \* per run: what its last executeCommand call returned
    ncancel,        \* CancelExecution calls that found their execution running
    cpc,            \* position of the API caller inside CancelExecution
    ctarget,        \* the record that call looked up
    reply,          \* the HTTP status of the last answer of GoScriptServer.executeScript
    nrejected,      \* requests that handler answered with an error
    agent,          \* the device agent under study: "client" (src/client) or
                    \* "cmd/client" (src/cmd/client); "none" on the server side
    delivered,      \* every command the broker has delivered to the agent, in order
    inbox,          \* delivered commands for which handleCommand is yet to be called
    handling,       \* commands whose handleCommand has started a tool and not returned
    invoked,        \* ids of the commands an external tool has been run for
    toolLog,        \* how each tool run ended: id, exit, overran
    sent,           \* the responses handed to Publish on the response topic, in order
    record,         \* persistence: the execution record in memory
    stored,         \* persistence: the content of its file <id>.json
    loaded,         \* persistence: the record read back from the file
    today,          \* retention: the day it is
    disk,           \* retention: execution id -> day its file was last written
    live,           \* retention: the ids in se.executions
    refused,        \* retention: the files the file system refuses to remove
    swept,          \* retention: how many files the sweeps have removed so far
    hour,           \* cleanup: the hour it is
    recs,           \* cleanup: gse.executions, id -> status and start hour
    evicted,        \* cleanup: the ids the cleanup calls have deleted so far
    wpending,       \* correlator: rw.pendingCommands, the registered command ids
    chans,          \* correlator: the channel made for each command id
    wpc,            \* correlator: where the registering goroutine is
    wcur,           \* correlator: the command id it last registered
    dpc,            \* correlator: where each delivering goroutine is
    darg,           \* correlator: the id of the response it delivers
    panicked,       \* correlator: the runtime panic that ended the process, if any
    lpc,            \* locks: how many lock operations of its call each thread has done
    lcalled,        \* locks: whether the thread is inside Lock(), waiting for the lock
    lround,         \* locks: how many calls each thread has completed
    cnow,           \* command service: the wall clock, in whole seconds
    crecs,          \* command service: the CommandExecution records, in allocation order
    cmap,           \* command service: s.executions, id -> the record it points to
    runner,         \* command service: where the runCommand goroutine of each record is
    cancelRet,      \* command service: what the last CancelExecution call returned
    qi,             \* long script: the index i of the loop of executeSteps
    qpc,            \* long script: where executeSteps is
    qsink,          \* long script: the responses in the execution's sink
    qflight,        \* long script: the commands the device has not dealt with yet, oldest first
    qchan,          \* long script: whether se.responseChans holds the sink
    qstatus,        \* long script: context.Status
    qfull           \* long script: the responses HandleResponse found the sink full for

\* What the engines and the facades hold: all but the HTTP layer's variables.
engineVars == <<engine, workload, clock, nruns, execution, executions,
                responseChans, sink, files, rchan, pc, spc, sres, pending,
                curCmd, wchan, published, outstanding, ret, ncancel, cpc,
                ctarget>>

\* What the device agent holds.
agentVars == <<agent, delivered, inbox, handling, invoked, toolLog, sent>>

\* What the persistence round trip holds.
codecVars == <<record, stored, loaded>>

\* The variables of the parts studied on their own, apart from the agent's.
\* What the retention sweep works on.
sweepVars == <<today, disk, live, refused, swept>>

\* What the cleanup call of the Go engine works on.
cleanupVars == <<hour, recs, evicted>>

\* What a ResponseWaiter and the goroutines that call it hold.
waiterVars == <<wpending, chans, wpc, wcur, dpc, darg, panicked>>

\* Where the threads that take the engine lock and a correlator lock are.
lockVars == <<lpc, lcalled, lround>>

\* What the command service and its runners hold.
serviceVars == <<cnow, crecs, cmap, runner, cancelRet>>

\* What one execution of a long YAML script, its sink and its device hold.
staleVars == <<qi, qpc, qsink, qflight, qchan, qstatus, qfull>>

extraVars == <<codecVars, sweepVars, cleanupVars, waiterVars, lockVars, serviceVars,
               staleVars>>

\* All that a step of the persistence round trip leaves alone, and all that
\* a step of the retention study leaves alone.
codecRest == <<engineVars, reply, nrejected, agentVars, sweepVars, cleanupVars, waiterVars, lockVars, serviceVars, staleVars>>
sweepRest == <<engineVars, reply, nrejected, agentVars, codecVars, cleanupVars, waiterVars, lockVars, serviceVars, staleVars>>
cleanupRest == <<engineVars, reply, nrejected, agentVars, codecVars, sweepVars, waiterVars, lockVars, serviceVars, staleVars>>
waiterRest == <<engineVars, reply, nrejected, agentVars, codecVars, sweepVars, cleanupVars, lockVars, serviceVars, staleVars>>
lockRest == <<engineVars, reply, nrejected, agentVars, codecVars, sweepVars, cleanupVars, waiterVars, serviceVars, staleVars>>
serviceRest == <<engineVars, reply, nrejected, agentVars, codecVars, sweepVars, cleanupVars, waiterVars, lockVars, staleVars>>
staleRest == <<engineVars, reply, nrejected, agentVars, codecVars, sweepVars, cleanupVars, waiterVars, lockVars, serviceVars>>

vars == <<engineVars, reply, nrejected, agentVars, extraVars>>

\* m[k] = v and delete(m, k) on a Go map.
Put(m, k, v) == [x \in DOMAIN m \cup {k} |-> IF x = k THEN v ELSE m[x]]
Remove(m, k) == [x \in DOMAIN m \ {k} |-> m[x]]

\* ------------------------------------------------------------------ time
\* time.Now() where an id is built from it: the clock may have advanced since
\* it was last read. The time stamps of a record read the clock as it stands.
NowValues == {clock} \cup (IF clock < MaxClock THEN {clock + 1} ELSE {})

\* time.Time.Unix(): whole seconds.
Unix(t) == t \div TicksPerSecond

\* ------------------------------------------------------------------- ids
\* fmt.Sprintf("%s_%s_%d", DeviceID, ScriptName, time.Now().Unix())
ExecutionID(dev, script, t) == <<dev, script, Unix(t)>>

\* fmt.Sprintf("cmd_%s_%d", msc.deviceID, time.Now().UnixNano())
generateCommandID(dev, t) == <<"cmd", dev, t>>

\* fmt.Sprintf("device/no_%s/command", msc.deviceID)
CommandTopic(dev) == <<"device", "no_", dev, "command">>

\* strings.HasPrefix(s, prefix)
HasPrefix(s, prefix) ==
    /\ Len(prefix) <= Len(s)
    /\ \A i \in 1..Len(prefix) : s[i] = prefix[i]

\* ------------------------------------------------- what a primitive returns
\* The (*models.Response, error) pair of executeCommand. cause: what ended the
\* call; status "none": the response is nil; err "": the error is nil.
NoReturn == [cause |-> "none", id |-> <<>>, status |-> "none", error |-> "", err |-> ""]

\* return response, nil
Returned(cause, resp) ==
    [cause |-> cause, id |-> resp.id, status |-> resp.status, error |-> resp.error,
     err |-> ""]

\* A facade that answers a failed publish with a made-up response of status
\* "error": the fault C20_PublishFailureIsErrorReturn rules out.
PublishFailedAsResponse ==
    [cause |-> "publish", id |-> <<>>, status |-> "error",
     error |-> "publish command failed", err |-> ""]

\* return nil, fmt.Errorf("publish command failed: %v", err)
PublishFailed ==
    [cause |-> "publish", id |-> <<>>, status |-> "none", error |-> "",
     err |-> "publish command failed"]

\* models.TextPosition: where the screen shows a text. The positions the
\* agents report; NoPos: text_info holds no text that contains the target.
NoPos == [x |-> 0, y |-> 0, width |-> 0, height |-> 0]
Positions ==
    {[x |-> 0, y |-> 2, width |-> 1, height |-> 3],
     [x |-> 4, y |-> 6, width |-> 3, height |-> 2]}

\* The response MQTTScriptClient.executeCommand makes up when time.After fires.
TimeoutResponse(cmd) ==
    [id |-> cmd.id, status |-> "timeout", found |-> FALSE, pos |-> NoPos,
     error |-> "command execution timeout"]

\* ------------------------------------------------------------ the scripts
\* The requests the API callers send. params: text says params["text"] is a
\* non-empty string, required is params["required"], seconds is
\* params["seconds"].
NoParams == [text |-> FALSE, required |-> TRUE, seconds |-> 0]
Requests ==
    {[device |-> "SN1", script |-> "find_and_click",
      params |-> [text |-> TRUE, required |-> TRUE, seconds |-> 0]],
     [device |-> "SN1", script |-> "find_and_click",
      params |-> [text |-> TRUE, required |-> FALSE, seconds |-> 0]],
     [device |-> "SN2", script |-> "screenshot", params |-> NoParams],
     [device |-> "SN2", script |-> "wait",
      params |-> [text |-> FALSE, required |-> TRUE, seconds |-> 1]],
     [device |-> "SN1", script |-> "custom", params |-> NoParams],
     [device |-> "SN2", script |-> "nosuch", params |-> NoParams],
     [device |-> "", script |-> "screenshot", params |-> NoParams],
     [device |-> "SN1", script |-> "", params |-> NoParams]}

Issue(type) == [kind |-> "cmd", type |-> type, outcome |-> "", x |-> 0, y |-> 0]
Return(outcome) ==
    [kind |-> "return", type |-> "none", outcome |-> outcome, x |-> 0, y |-> 0]

\* A tap at the top left corner of the text found: the fault
\* C24_FindAndClickTapsCentre rules out.
TapCorner(pos) ==
    [kind |-> "cmd", type |-> "tap", outcome |-> "", x |-> pos.x, y |-> pos.y]

\* ctx.Client.Tap(clickX, clickY) with the centre of the text found
\* (builtin.go:74-81).
TapCentre(pos) ==
    [kind |-> "cmd", type |-> "tap", outcome |-> "",
     x |-> pos.x + pos.width \div 2, y |-> pos.y + pos.height \div 2]

\* What a script function does first: the primitive it calls or what it
\* returns without calling one. A script registered through RegisterScript
\* ("custom") is arbitrary code: it may return either result or panic.
ScriptStart(script, params) ==
    CASE script = "screenshot" -> {Issue("screenshot")}
      [] script = "find_and_click" ->
             IF params.text THEN {Issue("screenshot")} ELSE {Return("fail")}
      [] script = "wait" ->
             IF params.seconds <= 0 THEN {Return("fail")} ELSE {Return("success")}
      [] OTHER -> {Return("success"), Return("fail"), Return("panic")}

\* Script functions that take every response for a success, whatever its
\* status: the fault C23_ScreenshotTimeoutFails rules out.
AfterResponseAnyStatus(script, params, n, resp) ==
    CASE script = "find_and_click" /\ n = 1 ->
             IF ~resp.found
             THEN (IF params.required THEN Return("fail") ELSE Return("success"))
             ELSE TapCentre(resp.pos)
      [] OTHER -> Return("success")

\* A find_and_click that takes the text for required whatever the request
\* says: the fault C25_OptionalMissIsSuccess rules out.
AfterResponseAlwaysRequired(script, params, n, resp) ==
    CASE script = "find_and_click" /\ n = 1 ->
             IF resp.status # "success" THEN Return("fail")
             ELSE IF ~resp.found THEN Return("fail")
                  ELSE TapCentre(resp.pos)
      [] OTHER ->
             IF resp.status # "success" THEN Return("fail") ELSE Return("success")

\* What a script function does with the response of its n-th primitive.
AfterResponse(script, params, n, resp) ==
    CASE script = "find_and_click" /\ n = 1 ->
             IF resp.status # "success" THEN Return("fail")
             ELSE IF ~resp.found
                  THEN (IF params.required THEN Return("fail") ELSE Return("success"))
                  ELSE TapCentre(resp.pos)
      [] OTHER ->
             IF resp.status # "success" THEN Return("fail") ELSE Return("success")

\* ------------------------------------------------------------- the facade
\* ResponseWaiter.RegisterCommand: a fresh one-slot channel under the id.
RegisterCommand(r, id) ==
    /\ pending' = [pending EXCEPT ![r] = @ \cup {id}]
    /\ wchan' = [wchan EXCEPT ![r] = EmptyChan]

\* executeScriptAsync once registry.Execute has returned `outcome` at time
\* `t`: the end time is stamped (engine.go:114-115); a panic unwinds to the
\* deferred function instead.
ScriptReturns(r, outcome, t) ==
    /\ sres' = [sres EXCEPT ![r] = outcome]
    /\ curCmd' = [curCmd EXCEPT ![r] = NoCmd]
    /\ IF outcome = "panic"
       THEN /\ pc' = [pc EXCEPT ![r] = "panicking"]
            /\ UNCHANGED <<clock, execution>>
       ELSE /\ pc' = [pc EXCEPT ![r] = "endSet"]
            /\ clock' = t
            /\ execution' = [execution EXCEPT ![r].endTime = t]

\* A facade whose executeCommand publishes while the wait of the command
\* before it is still open: the fault C10_OneOutstandingCommand rules out.
executeCommandNoWait(r, move, n, observed) ==
    \E t \in NowValues :
        LET cmd == [id |-> generateCommandID(execution[r].deviceID, t),
                    type |-> move.type, run |-> r,
                    topic |-> CommandTopic(execution[r].deviceID),
                    x |-> move.x, y |-> move.y]
        IN /\ RegisterCommand(r, cmd.id)
           /\ spc' = [spc EXCEPT ![r] = n]
           /\ curCmd' = [curCmd EXCEPT ![r] = cmd]
           /\ published' = published \cup {cmd}
           /\ outstanding' = [outstanding EXCEPT ![r] = @ \cup {cmd.id}]
           /\ pc' = [pc EXCEPT ![r] = "waiting"]
           /\ clock' = t
           /\ UNCHANGED <<execution, sres>>

\* MQTTScriptClient.executeCommand up to its select, for the n-th primitive
\* of the script: the command is registered and published; when the publish
\* fails the call returns the error, on which every script returns an error
\* result. `observed` are the commands whose wait returned in this step.
executeCommand(r, move, n, observed) ==
    \E t \in NowValues, brokerOk \in BOOLEAN :
        LET cmd == [id |-> generateCommandID(execution[r].deviceID, t),
                    type |-> move.type, run |-> r,
                    topic |-> CommandTopic(execution[r].deviceID),
                    x |-> move.x, y |-> move.y]
        IN /\ RegisterCommand(r, cmd.id)
           /\ spc' = [spc EXCEPT ![r] = n]
           /\ IF brokerOk
              THEN /\ curCmd' = [curCmd EXCEPT ![r] = cmd]
                   /\ published' = published \cup {cmd}
                   /\ outstanding' = [outstanding EXCEPT ![r] =
                                         (@ \ observed) \cup {cmd.id}]
                   /\ pc' = [pc EXCEPT ![r] = "waiting"]
                   /\ clock' = t
                   /\ UNCHANGED <<execution, sres>>
              ELSE /\ outstanding' = [outstanding EXCEPT ![r] = @ \ observed]
                   /\ ScriptReturns(r, "fail", t)
                   /\ UNCHANGED published

\* The goroutine of run r goes on with `move`: its script calls the next
\* primitive, or returns.
Continue(r, move, n, observed) ==
    IF move.kind = "cmd"
    THEN executeCommand(r, move, n, observed)
    ELSE /\ ScriptReturns(r, move.outcome, clock)
         /\ outstanding' = [outstanding EXCEPT ![r] = @ \ observed]
         /\ UNCHANGED <<pending, wchan, spc, published>>

\* What the script holds once this step's facade calls are over: `got`, the
\* return of the call that ended, unless the script went on to a next
\* primitive whose publish failed.
AfterCall(r, move, got) ==
    IF move.kind = "cmd" /\ pc'[r] # "waiting" THEN PublishFailed ELSE got

\* ------------------------------------------------------ GoScriptEngine API
ExecuteScript(dev, script, params) ==
    /\ engine = "go"
    /\ nruns < workload.runs
    /\ IF script \notin Registered
       THEN UNCHANGED engineVars
       ELSE \E t \in NowValues :
              LET r == nruns + 1
                  id == ExecutionID(dev, script, t)
              IN /\ clock' = t
                 /\ nruns' = r
                 /\ execution' = [execution EXCEPT ![r] =
                        [id |-> id, scriptName |-> script, deviceID |-> dev,
                         variables |-> params, startTime |-> t, endTime |-> 0,
                         status |-> "running", result |-> "none",
                         cancelled |-> FALSE]]
                 /\ executions' = Put(executions, id, r)
                 /\ responseChans' = Put(responseChans, id, r)
                 /\ pc' = [pc EXCEPT ![r] = "start"]
                 /\ UNCHANGED <<engine, workload, ret, sink, files, rchan, spc, sres, pending, curCmd, wchan,
                                published, outstanding, ncancel, cpc,
                                ctarget>>

\* ------------------------------------------------------- GoScriptServer API
\* c.JSON(code, ...) and return, for the codes that report an error.
Reject(code) ==
    /\ nrejected < workload.rejects
    /\ reply' = code
    /\ nrejected' = nrejected + 1

\* A handler that hands every request to the engine: the fault
\* C18_InvalidRequestHasNoEffect rules out.
executeScriptUnchecked(q) ==
    /\ ExecuteScript(q.device, q.script, q.params)
    /\ UNCHANGED <<agentVars, extraVars>>
    /\ IF nruns' # nruns
       THEN reply' = "StatusOK" /\ UNCHANGED nrejected
       ELSE Reject("StatusInternalServerError")

\* GoScriptServer.executeScript: the required fields are checked, then the
\* engine is called and its error, if any, is answered with a 500.
executeScript(q) ==
    IF q.device = "" \/ q.script = ""
    THEN /\ engine = "go"
         /\ Reject("StatusBadRequest")
         /\ UNCHANGED <<engineVars, agentVars, extraVars>>
    ELSE /\ ExecuteScript(q.device, q.script, q.params)
         /\ UNCHANGED <<agentVars, extraVars>>
         /\ IF nruns' # nruns
            THEN reply' = "StatusOK" /\ UNCHANGED nrejected
            ELSE Reject("StatusInternalServerError")

\* executeScriptAsync: registry.Execute calls the script function, which runs
\* to its first primitive or to its end.
RunScript(r) ==
    /\ engine = "go"
    /\ pc[r] = "start"
    /\ \E move \in ScriptStart(execution[r].scriptName, execution[r].variables) :
          /\ Continue(r, move, 1, {})
          /\ ret' = [ret EXCEPT ![r] = AfterCall(r, move, @)]
    /\ UNCHANGED <<extraVars, agentVars, engine, workload, reply, nrejected, sink, files, rchan, nruns, executions, responseChans, ncancel, cpc, ctarget>>

\* executeCommand, the select: a response is on the channel. The script goes on.
Receive(r) ==
    /\ engine = "go"
    /\ pc[r] = "waiting"
    /\ wchan[r].buf # <<>>
    /\ LET resp == Head(wchan[r].buf)
           move == AfterResponse(execution[r].scriptName, execution[r].variables,
                                 spc[r], resp)
       IN /\ Continue(r, move, spc[r] + 1, {curCmd[r].id})
          /\ ret' = [ret EXCEPT ![r] = AfterCall(r, move, Returned("response", resp))]
    /\ UNCHANGED <<extraVars, agentVars, engine, workload, reply, nrejected, sink, files, rchan, nruns, executions, responseChans, ncancel, cpc,
                   ctarget>>

\* The select of executeCommand with no time.After branch: the wait ends only
\* with a response.
NoTimer(r) ==
    /\ Receive(r)
    /\ wchan[r].buf # <<>>

\* executeCommand, the select: time.After fires and the call returns a
\* synthesized response; the pendingCommands entry stays. The script goes on.
Timeout(r) ==
    /\ engine = "go"
    /\ pc[r] = "waiting"
    /\ LET resp == TimeoutResponse(curCmd[r])
           move == AfterResponse(execution[r].scriptName, execution[r].variables,
                                 spc[r], resp)
       IN /\ Continue(r, move, spc[r] + 1, {curCmd[r].id})
          /\ ret' = [ret EXCEPT ![r] = AfterCall(r, move, Returned("timeout", resp))]
    /\ UNCHANGED <<extraVars, agentVars, engine, workload, reply, nrejected, sink, files, rchan, nruns, executions, responseChans, ncancel, cpc,
                   ctarget>>

FinalStatus(outcome) == IF outcome = "success" THEN "completed" ELSE "failed"

\* executeScriptAsync: status and result (engine.go:117-127).
SetStatus(r) ==
    /\ engine = "go"
    /\ pc[r] = "endSet"
    /\ execution' = [execution EXCEPT ![r].status = FinalStatus(sres[r]),
                                      ![r].result = sres[r]]
    /\ pc' = [pc EXCEPT ![r] = "defer"]
    /\ UNCHANGED <<extraVars, agentVars, engine, workload, reply, nrejected, ret, sink, files, rchan, clock, nruns, executions, responseChans, spc, sres,
                   pending, curCmd, wchan, published, outstanding, ncancel, cpc, ctarget>>

\* The deferred function: the sink is deleted; recover() returns nil.
Deferred(r) ==
    /\ engine = "go"
    /\ pc[r] = "defer"
    /\ responseChans' = Remove(responseChans, execution[r].id)
    /\ pc' = [pc EXCEPT ![r] = "done"]
    /\ UNCHANGED <<extraVars, agentVars, engine, workload, reply, nrejected, ret, sink, files, rchan, clock, nruns, execution, executions, spc, sres, pending,
                   curCmd, wchan, published, outstanding,
                   ncancel, cpc, ctarget>>

\* A deferred function without the recovery: the sink is deleted and the
\* record is left as the panic found it. The fault C19_PanicEndsFailed rules
\* out.
RecoverNothing(r) ==
    /\ engine = "go"
    /\ pc[r] = "panicking"
    /\ responseChans' = Remove(responseChans, execution[r].id)
    /\ pc' = [pc EXCEPT ![r] = "recEnd"]
    /\ UNCHANGED <<extraVars, agentVars, engine, workload, reply, nrejected, ret, sink, files, rchan,
                   clock, nruns, execution, executions, spc, sres, pending,
                   curCmd, wchan, published, outstanding, ncancel, cpc,
                   ctarget>>

\* The deferred function after a panic: the sink is deleted, then recover()
\* returns the panic value and the status is set (engine.go:95-102).
RecoverSetStatus(r) ==
    /\ engine = "go"
    /\ pc[r] = "panicking"
    /\ responseChans' = Remove(responseChans, execution[r].id)
    /\ execution' = [execution EXCEPT ![r].status = "failed"]
    /\ pc' = [pc EXCEPT ![r] = "recEnd"]
    /\ UNCHANGED <<extraVars, agentVars, engine, workload, reply, nrejected, ret, sink, files, rchan, clock, nruns, executions, spc, sres, pending, curCmd,
                   wchan, published, outstanding, ncancel, cpc,
                   ctarget>>

\* engine.go:103-105
RecoverSetEndTime(r) ==
    /\ engine = "go"
    /\ pc[r] = "recEnd"
    /\ execution' = [execution EXCEPT ![r].endTime = clock, ![r].result = "panic"]
    /\ pc' = [pc EXCEPT ![r] = "done"]
    /\ UNCHANGED <<clock, extraVars, agentVars, engine, workload, reply, nrejected, ret, sink, files, rchan, nruns, executions, responseChans, spc, sres, pending,
                   curCmd, wchan, published, outstanding,
                   ncancel, cpc, ctarget>>

\* ------------------------------------------------------- CancelExecution
\* The lookup, the test of engine.go:173 and, when it passes, Context.Cancel().
CancelCheck(id) ==
    /\ engine = "go"
    /\ cpc = "idle"
    /\ IF id \notin DOMAIN executions \/ execution[executions[id]].status # "running"
       THEN UNCHANGED vars
       ELSE /\ ncancel < workload.cancels
            /\ ncancel' = ncancel + 1
            /\ cpc' = "setStatus"
            /\ ctarget' = executions[id]
            /\ execution' = [execution EXCEPT ![executions[id]].cancelled = TRUE]
            /\ UNCHANGED <<extraVars, agentVars, engine, workload, reply, nrejected, ret, sink, files, rchan, clock, nruns, executions, responseChans, pc,
                           spc, sres, pending, curCmd, wchan, published,
                           outstanding>>

\* engine.go:175
CancelSetStatus ==
    /\ cpc = "setStatus"
    /\ execution' = [execution EXCEPT ![ctarget].status = "cancelled"]
    /\ cpc' = "setEnd"
    /\ UNCHANGED <<ncancel, extraVars, agentVars, engine, workload, reply, nrejected, ret, sink, files, rchan, clock, nruns, executions, responseChans, pc, spc, sres,
                   pending, curCmd, wchan, published, outstanding, ctarget>>

\* engine.go:176-178, and the return.
CancelSetEndTime ==
    /\ cpc = "setEnd"
    /\ execution' = [execution EXCEPT ![ctarget].endTime = clock,
                                      ![ctarget].result = "cancelled"]
    /\ cpc' = "idle"
    /\ ctarget' = 0
    /\ UNCHANGED <<ncancel, extraVars, agentVars, engine, workload, reply, nrejected, ret, sink, files, rchan, clock, nruns, executions, responseChans, pc, spc,
                   sres, pending, curCmd, wchan, published, outstanding>>

\* ------------------------------------------------ the YAML step engine
\* pkg/engine: ScriptEngine. The sink of an execution holds up to SinkCapacity
\* responses.
SinkCapacity == 10

\* fmt.Sprintf("%s_%d", executionID, time.Now().UnixNano())
YamlCommandID(executionID, t) == Append(executionID, t)

\* fmt.Sprintf("device/%s/command", deviceID)
YamlCommandTopic(dev) == <<"device", dev, "command">>

\* The script files under ./scripts. Every step here has no condition, fixed
\* coordinates, no output variables and no wait.
Step(name, type, onFailure, onSuccess) ==
    [name |-> name, type |-> type, onFailure |-> onFailure, onSuccess |-> onSuccess,
     x |-> 5, y |-> 7]
YamlScripts ==
    [open_app |-> <<Step("launch", "tap", "", ""), Step("confirm", "tap", "end", "")>>,
     retry |-> <<Step("press", "tap", "press", "end")>>]

\* LoadScript: a file that does not parse is an error; a name no file defines
\* falls back to the first script of examples.yaml.
LoadScript(name) ==
    IF name = "broken" THEN [ok |-> FALSE, steps |-> <<>>]
    ELSE IF name \in DOMAIN YamlScripts THEN [ok |-> TRUE, steps |-> YamlScripts[name]]
    ELSE [ok |-> TRUE, steps |-> YamlScripts["open_app"]]

YamlRequests ==
    {[device |-> "SN1", script |-> "retry"],
     [device |-> "SN2", script |-> "other"], [device |-> "SN2", script |-> "broken"]}

\* handleStepJump, with the stepMap executeSteps builds (indices from 0; of
\* two steps with one name the later one stays in the map).
handleStepJump(target, steps) ==
    CASE target = "end" -> -2
      [] target \in {"next", "skip"} -> -1
      [] OTHER ->
            LET named == {j \in 1..Len(steps) : steps[j].name = target}
            IN IF named = {} THEN -1
               ELSE (CHOOSE j \in named : \A k \in named : k <= j) - 1

\* executeSteps, script_engine.go:299-341: what the loop does after the
\* response of step i. brk: the loop is left; status: context.Status then;
\* i: the index the loop goes on with.
AfterStep(steps, i, status) ==
    LET step == steps[i + 1]
        jf == handleStepJump(step.onFailure, steps)
        js == handleStepJump(step.onSuccess, steps)
        goto(j) == [brk |-> FALSE, status |-> "running", i |-> j]
        break(st) == [brk |-> TRUE, status |-> st, i |-> i]
    IN CASE status = "error" /\ step.onFailure = "" -> break("failed")
         [] status = "error" /\ step.onFailure # "" /\ jf >= 0 -> goto(jf)
         [] status = "error" /\ step.onFailure # "" /\ jf = -2 -> break("failed")
         [] status \in {"success", "ok"} /\ step.onSuccess # "" /\ js >= 0 -> goto(js)
         [] status \in {"success", "ok"} /\ step.onSuccess # "" /\ js = -2 ->
                break("running")
         [] OTHER -> goto(i + 1)

\* An executeSteps that leaves context.Status as the loop left it: the fault
\* C8_FinalStatusTerminal rules out.
YamlFinishKeepsStatus(r, st, observed) ==
    /\ execution' = [execution EXCEPT ![r].status = st]
    /\ pc' = [pc EXCEPT ![r] = "save"]
    /\ curCmd' = [curCmd EXCEPT ![r] = NoCmd]
    /\ outstanding' = [outstanding EXCEPT ![r] = @ \ observed]
    /\ UNCHANGED <<clock, spc, published, rchan>>

\* executeSteps once its loop is left with context.Status = st
\* (script_engine.go:344-346).
YamlFinish(r, st, observed) ==
    /\ execution' = [execution EXCEPT ![r].status =
                        IF st = "running" THEN "completed" ELSE st]
    /\ pc' = [pc EXCEPT ![r] = "save"]
    /\ curCmd' = [curCmd EXCEPT ![r] = NoCmd]
    /\ outstanding' = [outstanding EXCEPT ![r] = @ \ observed]
    /\ UNCHANGED <<clock, spc, published, rchan>>

\* ScriptEngine.executeCommand up to its select, for step i.
YamlExecuteCommand(r, i, observed) ==
    \E t \in NowValues, brokerOk \in BOOLEAN :
        LET steps == LoadScript(execution[r].scriptName).steps
            id == execution[r].id
            cmd == [id |-> YamlCommandID(id, t), type |-> steps[i + 1].type,
                    run |-> r, topic |-> YamlCommandTopic(execution[r].deviceID),
                    x |-> steps[i + 1].x, y |-> steps[i + 1].y]
        IN IF brokerOk
           THEN /\ clock' = t
                /\ spc' = [spc EXCEPT ![r] = i]
                /\ published' = published \cup {cmd}
                /\ curCmd' = [curCmd EXCEPT ![r] = cmd]
                /\ outstanding' = [outstanding EXCEPT ![r] =
                                      (@ \ observed) \cup {cmd.id}]
                /\ rchan' = [rchan EXCEPT ![r] =
                                IF id \in DOMAIN responseChans
                                THEN responseChans[id] ELSE 0]
                /\ pc' = [pc EXCEPT ![r] = "waiting"]
                /\ UNCHANGED execution
           ELSE YamlFinish(r, "failed", observed)

\* The response ScriptEngine.executeCommand (script_engine.go:382-390) or,
\* once a response with another id was taken, waitForResponse
\* (script_engine.go:404-410) makes up when time.After fires.
YamlTimeoutResponse(cmd, more) ==
    [id |-> cmd.id, status |-> "timeout", found |-> FALSE, pos |-> NoPos,
     error |-> IF more THEN "response timeout" ELSE "command execution timeout"]

\* return nil, fmt.Errorf("timeout waiting for response")
DeadlinePassed ==
    [cause |-> "timeout", id |-> <<>>, status |-> "none", error |-> "",
     err |-> "timeout waiting for response"]

\* The head of the loop of executeSteps with index i.
YamlLoop(r, i, observed) ==
    IF i < Len(LoadScript(execution[r].scriptName).steps)
    THEN YamlExecuteCommand(r, i, observed)
    ELSE YamlFinish(r, "running", observed)

\* executeSteps with the response executeCommand returned for the current step.
YamlAfter(r, resp, observed) ==
    LET a == AfterStep(LoadScript(execution[r].scriptName).steps, spc[r], resp.status)
    IN IF a.brk THEN YamlFinish(r, a.status, observed) ELSE YamlLoop(r, a.i, observed)

\* What executeSteps holds once this step's executeCommand calls are over:
\* `got`, unless the loop went on to a next command whose publish failed.
YamlAfterCall(r, status, got) ==
    LET steps == LoadScript(execution[r].scriptName).steps
        a == AfterStep(steps, spc[r], status)
    IN IF ~a.brk /\ a.i < Len(steps) /\ pc'[r] # "waiting" THEN PublishFailed ELSE got

YamlExecuteScript(dev, script) ==
    /\ engine = "yaml"
    /\ nruns < workload.runs
    /\ IF ~LoadScript(script).ok
       THEN UNCHANGED vars
       ELSE \E t \in NowValues :
              LET r == nruns + 1
                  id == ExecutionID(dev, script, t)
              IN /\ clock' = t
                 /\ nruns' = r
                 /\ execution' = [execution EXCEPT ![r] =
                        [id |-> id, scriptName |-> script, deviceID |-> dev,
                         variables |-> NoParams, startTime |-> t, endTime |-> 0,
                         status |-> "running", result |-> "none",
                         cancelled |-> FALSE]]
                 /\ executions' = Put(executions, id, r)
                 /\ responseChans' = Put(responseChans, id, r)
                 /\ sink' = [sink EXCEPT ![r] = <<>>]
                 /\ pc' = [pc EXCEPT ![r] = "start"]
                 /\ UNCHANGED <<extraVars, agentVars, engine, workload, reply, nrejected, ret, files, rchan, spc, sres, pending,
                                curCmd, wchan, published, outstanding, ncancel,
                                cpc, ctarget>>

\* The goroutine enters executeSteps.
YamlRunSteps(r) ==
    /\ engine = "yaml"
    /\ pc[r] = "start"
    /\ YamlLoop(r, 0, {})
    /\ ret' = [ret EXCEPT ![r] =
                  IF 0 < Len(LoadScript(execution[r].scriptName).steps)
                     /\ pc'[r] # "waiting"
                  THEN PublishFailed ELSE @]
    /\ UNCHANGED <<extraVars, agentVars, engine, workload, reply, nrejected, nruns, executions, responseChans, sink, files,
                   sres, pending, wchan, ncancel, cpc, ctarget>>

\* executeCommand and waitForResponse: a response is taken from the sink. One
\* with another id is dropped and the wait goes on in waitForResponse, whose
\* loop ends with an error when its deadline has passed by then.
YamlReceive(r) ==
    /\ engine = "yaml"
    /\ pc[r] \in {"waiting", "waitMore"}
    /\ rchan[r] # 0
    /\ sink[rchan[r]] # <<>>
    /\ sink' = [sink EXCEPT ![rchan[r]] = Tail(@)]
    /\ LET resp == Head(sink[rchan[r]])
       IN IF resp.id = curCmd[r].id
          THEN /\ YamlAfter(r, resp, {curCmd[r].id})
               /\ ret' = [ret EXCEPT ![r] =
                             YamlAfterCall(r, resp.status, Returned("response", resp))]
          ELSE \E expired \in BOOLEAN :
                 IF expired /\ pc[r] = "waitMore"
                 THEN /\ YamlFinish(r, "failed", {curCmd[r].id})
                      /\ ret' = [ret EXCEPT ![r] = DeadlinePassed]
                 ELSE /\ pc' = [pc EXCEPT ![r] = "waitMore"]
                      /\ UNCHANGED <<clock, execution, spc, published, rchan,
                                     curCmd, outstanding, ret>>
    /\ UNCHANGED <<extraVars, agentVars, engine, workload, reply, nrejected, nruns, executions, responseChans, files, sres,
                   pending, wchan, ncancel, cpc, ctarget>>

\* executeCommand and waitForResponse: time.After fires and a response with
\* status "timeout" is returned.
YamlTimeout(r) ==
    /\ engine = "yaml"
    /\ pc[r] \in {"waiting", "waitMore"}
    /\ LET resp == YamlTimeoutResponse(curCmd[r], pc[r] = "waitMore")
       IN /\ YamlAfter(r, resp, {curCmd[r].id})
          /\ ret' = [ret EXCEPT ![r] =
                        YamlAfterCall(r, "timeout", Returned("timeout", resp))]
    /\ UNCHANGED <<extraVars, agentVars, engine, workload, reply, nrejected, nruns, executions, responseChans, sink, files,
                   sres, pending, wchan, ncancel, cpc, ctarget>>

\* saveExecution: the record is written to <id>.json; a write error is logged.
saveExecution(r) ==
    /\ engine = "yaml"
    /\ pc[r] = "save"
    /\ \E written \in BOOLEAN :
          files' = IF written THEN Put(files, execution[r].id, execution[r].status)
                   ELSE files
    /\ pc' = [pc EXCEPT ![r] = "defer"]
    /\ UNCHANGED <<extraVars, agentVars, engine, workload, reply, nrejected, ret, clock, nruns, execution, executions,
                   responseChans, sink, rchan, spc, sres, pending, curCmd, wchan,
                   published, outstanding, ncancel, cpc, ctarget>>

\* The deferred function of executeSteps.
YamlDeferred(r) ==
    /\ engine = "yaml"
    /\ pc[r] = "defer"
    /\ responseChans' = Remove(responseChans, execution[r].id)
    /\ pc' = [pc EXCEPT ![r] = "done"]
    /\ UNCHANGED <<extraVars, agentVars, engine, workload, reply, nrejected, ret, clock, nruns, execution, executions, sink,
                   files, rchan, spc, sres, pending, curCmd, wchan, published,
                   outstanding, ncancel, cpc, ctarget>>

\* ScriptEngine.HandleResponse: the sinks its range over se.responseChans can
\* put the response into.
YamlTargets(resp) ==
    {e \in DOMAIN responseChans :
        HasPrefix(resp.id, e) /\ Len(sink[responseChans[e]]) < SinkCapacity}

YamlHandleResponse(resp) ==
    /\ IF YamlTargets(resp) = {}
       THEN UNCHANGED sink
       ELSE \E e \in YamlTargets(resp) :
              sink' = [sink EXCEPT ![responseChans[e]] = Append(@, resp)]
    /\ UNCHANGED <<pending, wchan>>

\* ------------------------------------------------- the device and the broker
\* The response the agent of the addressed device publishes for command c,
\* echoing its id. found: text_info holds a text that contains the target.
AgentResponse(c, st, f, p) ==
    [id |-> c.id, status |-> st, found |-> f, pos |-> IF f THEN p ELSE NoPos,
     error |-> IF st = "error" THEN "agent" ELSE ""]

\* The executions GoScriptEngine.HandleResponse may hand the response to: the
\* first one its range over gse.executions meets whose Context and Client are
\* set, which they are for every record; the iteration order of a Go map is
\* not specified.
ForwardTargets(resp) == DOMAIN executions

\* Whether run r's executeCommand holds the channel registered under id.
IsCurrent(r, id) == pc[r] = "waiting" /\ curCmd[r].id = id

\* A facade that hands a response to whichever wait is open, without the
\* lookup by id: the fault C1_WaitReturnsMatchingId rules out.
WaiterDeliversAnyId(r, resp) ==
    /\ pending' = [pending EXCEPT ![r] = @ \ {resp.id}]
    /\ wchan' = IF pc[r] = "waiting"
                THEN [wchan EXCEPT ![r] =
                         [buf |-> IF @.buf = <<>> THEN <<resp>> ELSE @.buf,
                          closed |-> TRUE]]
                ELSE wchan

\* A facade whose delivery is a plain send on an unbuffered channel: it can
\* only be done while the goroutine that registered the id is receiving. The
\* fault C21_DeliveryNeverBlocks rules out.
WaiterBlockingSend(r, resp) ==
    IF resp.id \in pending[r]
    THEN /\ IsCurrent(r, resp.id)
         /\ pending' = [pending EXCEPT ![r] = @ \ {resp.id}]
         /\ wchan' = [wchan EXCEPT ![r] = [buf |-> <<resp>>, closed |-> TRUE]]
    ELSE UNCHANGED <<pending, wchan>>

\* ResponseWaiter.HandleResponse of run r's facade.
WaiterHandleResponse(r, resp) ==
    IF resp.id \in pending[r]
    THEN /\ pending' = [pending EXCEPT ![r] = @ \ {resp.id}]
         /\ wchan' = IF IsCurrent(r, resp.id)
                     THEN [wchan EXCEPT ![r] =
                              [buf |-> IF @.buf = <<>> THEN <<resp>> ELSE @.buf,
                               closed |-> TRUE]]
                     ELSE wchan
    ELSE UNCHANGED <<pending, wchan>>

\* GoScriptEngine.HandleResponse
HandleResponse(resp) ==
    /\ IF ForwardTargets(resp) = {}
       THEN UNCHANGED <<pending, wchan>>
       ELSE \E e \in ForwardTargets(resp) : WaiterHandleResponse(executions[e], resp)
    /\ UNCHANGED sink

\* The agent answers a published command and the broker client hands the
\* response to the handler of the engine.
DeviceResponse(c) ==
    /\ c \in published
    /\ published' = published \ {c}
    /\ \E st \in {"success", "error"}, f \in BOOLEAN, p \in Positions \cup {NoPos} :
          /\ f => (st = "success" /\ c.type = "screenshot")
          /\ f <=> (p # NoPos)
          /\ (c.type = "tap" /\ (c.x <= 0 \/ c.y <= 0)) => st = "error"
          /\ IF engine = "go"
             THEN HandleResponse(AgentResponse(c, st, f, p))
             ELSE YamlHandleResponse(AgentResponse(c, st, f, p))
    /\ UNCHANGED <<extraVars, agentVars, engine, workload, reply, nrejected, ret, clock, nruns, execution, executions,
                   responseChans, files, rchan, pc, spc, sres, curCmd, outstanding,
                   ncancel, cpc, ctarget>>

\* ------------------------------------------------------- the device agents
\* The two agent programs of the repository: src/client (commands dispatched
\* by their type) and src/cmd/client (every command run as a shell command
\* under a deadline).
Agents == {"client", "cmd/client"}

\* The commands the server side sends: type, command line, tap coordinates.
AgentCommands ==
    {[type |-> "shell", command |-> "ls", x |-> 0, y |-> 0],
     [type |-> "shell", command |-> "", x |-> 0, y |-> 0],
     [type |-> "tap", command |-> "", x |-> 5, y |-> 7],
     [type |-> "tap", command |-> "", x |-> 0, y |-> 7],
     [type |-> "tap", command |-> "", x |-> 5, y |-> -1],
     [type |-> "bogus", command |-> "", x |-> 0, y |-> 0],
     [type |-> "bogus", command |-> "ls", x |-> 0, y |-> 0]}

\* How a tool run can end. src/client runs its tools with exec.Command: a
\* tool that outlasts the command's timeout goes on until it exits by
\* itself. src/cmd/client runs them with exec.CommandContext: the tool is
\* killed when the deadline passes.
ToolOutcomes(a) ==
    IF a = "client"
    THEN {[exit |-> e, overran |-> o] : e \in {"zero", "nonzero"}, o \in BOOLEAN}
    ELSE {[exit |-> "zero", overran |-> FALSE],
          [exit |-> "nonzero", overran |-> FALSE],
          [exit |-> "killed", overran |-> TRUE]}

\* Client.executeTapCommand before the tool: "error" for a tap it rejects.
TapAnywhere(c) == "tool"

TapDispatch(c) == IF c.x <= 0 \/ c.y <= 0 THEN "error" ELSE "tool"

\* Client.executeCommand up to the tool: the status it answers at once with
\* ("error"), or "tool" when it runs an external tool for the command.
Dispatch(a, c) ==
    IF a = "client"
    THEN CASE c.type = "shell" -> IF c.command = "" THEN "error" ELSE "tool"
           [] c.type = "tap" -> TapDispatch(c)
           [] OTHER -> "error"
    ELSE IF c.command = "" THEN "error" ELSE "tool"

\* The status of the response once the tool has ended.
ToolStatus(a, out) ==
    IF a = "client"
    THEN (IF out.exit = "zero" THEN "success" ELSE "error")
    ELSE IF out.exit = "zero" THEN "success"
         ELSE IF out.overran THEN "timeout" ELSE "error"

\* A response that carries an id of the agent's own making.
AgentReplyOwnId(c, st) == [id |-> <<"resp", 0>>, status |-> st]

\* &models.Response{ID: command.ID, Status: ...}
AgentReply(c, st) == [id |-> c.id, status |-> st]

\* The broker client receives a command on the agent's command topic.
Deliver(t) ==
    /\ agent \in Agents
    /\ Len(delivered) < MaxDelivered
    /\ LET c == [id |-> <<"cmd", Len(delivered) + 1>>, type |-> t.type,
                 command |-> t.command, x |-> t.x, y |-> t.y]
       IN /\ delivered' = Append(delivered, c)
          /\ inbox' = Append(inbox, c)
    /\ UNCHANGED <<extraVars, engineVars, reply, nrejected, agent, handling, invoked, toolLog, sent>>

\* An agent whose callback is started for a message while its call for the
\* message before is still running.
handleCommandConcurrently ==
    /\ agent \in Agents
    /\ inbox # <<>>
    /\ LET c == Head(inbox)
       IN /\ inbox' = Tail(inbox)
          /\ IF Dispatch(agent, c) = "tool"
             THEN /\ handling' = handling \cup {c}
                  /\ invoked' = invoked \cup {c.id}
                  /\ UNCHANGED sent
             ELSE /\ sent' = Append(sent, AgentReply(c, Dispatch(agent, c)))
                  /\ UNCHANGED <<handling, invoked>>
    /\ UNCHANGED <<extraVars, engineVars, reply, nrejected, agent, delivered, toolLog>>

\* Client.handleCommand, called by the broker client for the next message
\* once its call for the message before has returned: executeCommand runs
\* to the tool, or to its end when no tool is run, and then sendResponse
\* publishes the response.
handleCommand ==
    /\ agent \in Agents
    /\ handling = {}
    /\ inbox # <<>>
    /\ LET c == Head(inbox)
       IN /\ inbox' = Tail(inbox)
          /\ IF Dispatch(agent, c) = "tool"
             THEN /\ handling' = handling \cup {c}
                  /\ invoked' = invoked \cup {c.id}
                  /\ UNCHANGED sent
             ELSE /\ sent' = Append(sent, AgentReply(c, Dispatch(agent, c)))
                  /\ UNCHANGED <<handling, invoked>>
    /\ UNCHANGED <<extraVars, engineVars, reply, nrejected, agent, delivered, toolLog>>

\* The tool of command c ends: executeCommand returns and sendResponse
\* publishes the response.
ToolExit(c) ==
    /\ c \in handling
    /\ \E out \in ToolOutcomes(agent) :
          /\ toolLog' = toolLog \cup {[id |-> c.id, exit |-> out.exit,
                                       overran |-> out.overran]}
          /\ sent' = Append(sent, AgentReply(c, ToolStatus(agent, out)))
    /\ handling' = handling \ {c}
    /\ UNCHANGED <<extraVars, engineVars, reply, nrejected, agent, delivered, inbox, invoked>>

\* --------------------------------------------------------- specification
NoExecution == [id |-> <<>>, scriptName |-> "", deviceID |-> "",
                variables |-> NoParams, startTime |-> 0, endTime |-> 0,
                status |-> "none", result |-> "none", cancelled |-> FALSE]

\* No command has reached the agent.
AgentIdle ==
    /\ delivered = <<>>
    /\ inbox = <<>>
    /\ handling = {}
    /\ invoked = {}
    /\ toolLog = {}
    /\ sent = <<>>

\* Nothing is being saved or loaded.
NoRecord == [none |-> TRUE]

CodecIdle ==
    /\ record = NoRecord
    /\ stored = NoRecord
    /\ loaded = NoRecord

\* The persistence directory is empty and so is the map.
SweepIdle ==
    /\ today = 0
    /\ disk = <<>>
    /\ live = {}
    /\ refused = {}
    /\ swept = 0

\* The map of the Go engine is empty.
CleanupIdle ==
    /\ hour = 0
    /\ recs = <<>>
    /\ evicted = {}

\* NewResponseWaiter: no command is registered, no goroutine is in a call.
WaiterIdle ==
    /\ wpending = {}
    /\ chans = <<>>
    /\ wpc = "idle"
    /\ wcur = 0
    /\ dpc = [g \in 1..MaxDeliverers |-> "idle"]
    /\ darg = [g \in 1..MaxDeliverers |-> 0]
    /\ panicked = ""

\* The callers of the engine and of the correlator.
Threads == {"execute", "get_status", "cancel", "cleanup", "handle_response", "script"}

\* No thread is in a call.
LockIdle ==
    /\ lpc = [t \in Threads |-> 0]
    /\ lcalled = [t \in Threads |-> FALSE]
    /\ lround = [t \in Threads |-> 0]

\* NewCommandService: no record, no runner, no call made.
ServiceIdle ==
    /\ cnow = 0
    /\ crecs = <<>>
    /\ cmap = <<>>
    /\ runner = <<>>
    /\ cancelRet = ""

\* No execution of the long script yet.
StaleIdle ==
    /\ qi = 0
    /\ qpc = "none"
    /\ qsink = <<>>
    /\ qflight = <<>>
    /\ qchan = FALSE
    /\ qstatus = "none"
    /\ qfull = {}

\* The parts studied on their own are at rest.
ExtraIdle ==
    /\ CodecIdle
    /\ SweepIdle
    /\ CleanupIdle
    /\ WaiterIdle
    /\ LockIdle
    /\ ServiceIdle
    /\ StaleIdle

\* The server has started and no request has been made.
EngineIdle ==
    /\ reply = "none"
    /\ nrejected = 0
    /\ clock = 1
    /\ nruns = 0
    /\ execution = [r \in Runs |-> NoExecution]
    /\ executions = <<>>
    /\ responseChans = <<>>
    /\ sink = [r \in Runs |-> <<>>]
    /\ files = <<>>
    /\ rchan = [r \in Runs |-> 0]
    /\ pc = [r \in Runs |-> "idle"]
    /\ spc = [r \in Runs |-> 0]
    /\ sres = [r \in Runs |-> ""]
    /\ pending = [r \in Runs |-> {}]
    /\ curCmd = [r \in Runs |-> NoCmd]
    /\ wchan = [r \in Runs |-> EmptyChan]
    /\ published = {}
    /\ outstanding = [r \in Runs |-> {}]
    /\ ret = [r \in Runs |-> NoReturn]
    /\ ncancel = 0
    /\ cpc = "idle"
    /\ ctarget = 0

Init ==
    /\ engine \in {"go", "yaml"}
    /\ workload \in Workloads
    /\ engine = "yaml" => workload.cancels = 0 /\ workload.rejects = 0
    /\ EngineIdle
    /\ agent = "none"
    /\ AgentIdle
    /\ ExtraIdle

Next ==
    \/ \E q \in Requests : executeScript(q)
    \/ \E r \in Runs : RunScript(r)
    \/ \E r \in Runs : Receive(r)
    \/ \E r \in Runs : Timeout(r)
    \/ \E r \in Runs : SetStatus(r)
    \/ \E r \in Runs : Deferred(r)
    \/ \E r \in Runs : RecoverSetStatus(r)
    \/ \E r \in Runs : RecoverSetEndTime(r)
    \/ \E id \in DOMAIN executions : CancelCheck(id)
    \/ CancelSetStatus
    \/ CancelSetEndTime
    \/ \E c \in published : DeviceResponse(c)
    \/ \E q \in YamlRequests : YamlExecuteScript(q.device, q.script)
    \/ \E r \in Runs : YamlRunSteps(r)
    \/ \E r \in Runs : YamlReceive(r)
    \/ \E r \in Runs : YamlTimeout(r)
    \/ \E r \in Runs : saveExecution(r)
    \/ \E r \in Runs : YamlDeferred(r)

Spec == Init /\ [][Next]_vars

\* An agent on its own: the server side is whatever sends it commands.
AgentInit ==
    /\ engine = "none"
    /\ workload = [runs |-> 0, cancels |-> 0, rejects |-> 0]
    /\ EngineIdle
    /\ agent \in Agents
    /\ AgentIdle
    /\ ExtraIdle

AgentNext ==
    \/ \E t \in AgentCommands : Deliver(t)
    \/ handleCommand
    \/ \E c \in handling : ToolExit(c)

AgentSpec == AgentInit /\ [][AgentNext]_vars

\* ------------------------------------------------- the persisted record
\* Go values as the record holds them. A number in a map[string]interface{}
\* is an int or a float64; a map is nil or a map; a time.Time has its wall
\* clock reading, in ticks, and may carry a monotonic reading (time.Now()).
GoNumbers == {[int |-> 2], [float |-> 2], [float |-> 3]}
NilMap == [nil |-> TRUE]
GoMaps == {NilMap, [map |-> <<>>]}
              \cup {[map |-> [k \in {"seconds"} |-> n]] : n \in GoNumbers}
GoTimes == {[wall |-> w, mono |-> m] : w \in 1..(2 * TicksPerSecond), m \in BOOLEAN}
NilPtr == [nilptr |-> TRUE]

\* *ScriptResult
ScriptResults ==
    {[success |-> ok, message |-> "m", data |-> d,
      error |-> IF ok THEN "" ELSE "e", duration |-> 1] :
        ok \in BOOLEAN, d \in GoMaps}

\* ScriptExecution. Context is the live script context of the goroutine.
ScriptExecutions ==
    {[id |-> <<"SN1", "wait", 1>>, script_name |-> "wait", device_id |-> "SN1",
      variables |-> v, start_time |-> [wall |-> TicksPerSecond, mono |-> TRUE],
      end_time |-> e, status |-> st, result |-> res, context |-> "live"] :
        v \in {NilMap, [map |-> <<>>], [map |-> [k \in {"seconds"} |-> [float |-> 2]]]},
        e \in {NilPtr} \cup GoTimes,
        st \in {"running"} \cup Terminal,
        res \in {NilPtr} \cup ScriptResults}

\* The JSON text of a value, as the data it denotes: an object is a function
\* of its keys. A number is written without its Go type.
JsonOfNumber(n) == [num |-> IF "int" \in DOMAIN n THEN n.int ELSE n.float]

\* A time written to whole seconds.
JsonOfTimeSeconds(t) == [time |-> (t.wall \div TicksPerSecond) * TicksPerSecond]

\* time.Time.MarshalJSON: RFC 3339 with the fraction of the second; the
\* monotonic reading is not written.
JsonOfTime(t) == [time |-> t.wall]

\* A map[string]interface{}: null for a nil map.
JsonOfMap(m) ==
    IF m = NilMap THEN [null |-> TRUE]
    ELSE [obj |-> [k \in DOMAIN m.map |-> JsonOfNumber(m.map[k])]]

\* One member of an object, or none when omitempty leaves it out.
Member(k, v) == [x \in {k} |-> v]
OmitEmpty(empty, k, v) == IF empty THEN <<>> ELSE Member(k, v)

\* json.Marshal of a ScriptResult.
JsonOfResult(res) ==
    [obj |-> Member("success", [bool |-> res.success])
             @@ Member("message", [str |-> res.message])
             @@ OmitEmpty(res.data = NilMap \/ res.data = [map |-> <<>>],
                          "data", JsonOfMap(res.data))
             @@ OmitEmpty(res.error = "", "error", [str |-> res.error])
             @@ Member("duration", [num |-> res.duration])]

\* json.MarshalIndent of a ScriptExecution: the field tagged "-" is not
\* written, a nil end_time and a nil result are left out.
Marshal(rec) ==
    [obj |-> Member("id", [str |-> rec.id])
             @@ Member("script_name", [str |-> rec.script_name])
             @@ Member("device_id", [str |-> rec.device_id])
             @@ Member("variables", JsonOfMap(rec.variables))
             @@ Member("start_time", JsonOfTime(rec.start_time))
             @@ OmitEmpty(rec.end_time = NilPtr, "end_time",
                          IF rec.end_time = NilPtr THEN [null |-> TRUE]
                          ELSE JsonOfTime(rec.end_time))
             @@ Member("status", [str |-> rec.status])
             @@ OmitEmpty(rec.result = NilPtr, "result",
                          IF rec.result = NilPtr THEN [null |-> TRUE]
                          ELSE JsonOfResult(rec.result))]

\* json.Unmarshal into an interface{}: every number is a float64.
NumberOfJson(j) == [float |-> j.num]

\* time.Time.UnmarshalJSON: no monotonic reading.
TimeOfJson(j) == [wall |-> j.time, mono |-> FALSE]

\* Into a map[string]interface{} field of a zero struct: a missing member
\* and null leave the field nil.
MapOfJson(o, k) ==
    IF k \notin DOMAIN o \/ "null" \in DOMAIN o[k] THEN NilMap
    ELSE [map |-> [x \in DOMAIN o[k].obj |-> NumberOfJson(o[k].obj[x])]]

ResultOfJson(o) ==
    [success |-> o["success"].bool, message |-> o["message"].str,
     data |-> MapOfJson(o, "data"),
     error |-> IF "error" \in DOMAIN o THEN o["error"].str ELSE "",
     duration |-> o["duration"].num]

\* json.Unmarshal into a zero ScriptExecution.
Unmarshal(j) ==
    [id |-> j.obj["id"].str, script_name |-> j.obj["script_name"].str,
     device_id |-> j.obj["device_id"].str,
     variables |-> MapOfJson(j.obj, "variables"),
     start_time |-> TimeOfJson(j.obj["start_time"]),
     end_time |-> IF "end_time" \in DOMAIN j.obj
                  THEN TimeOfJson(j.obj["end_time"]) ELSE NilPtr,
     status |-> j.obj["status"].str,
     result |-> IF "result" \in DOMAIN j.obj
                THEN ResultOfJson(j.obj["result"].obj) ELSE NilPtr,
     context |-> "nil"]

\* A record to persist is at hand.
Pick(rec) ==
    /\ engine = "none"
    /\ agent = "none"
    /\ record = NoRecord
    /\ record' = rec
    /\ UNCHANGED <<codecRest, stored, loaded>>

\* saveExecution: the record is written to its file.
Save ==
    /\ record # NoRecord
    /\ stored = NoRecord
    /\ stored' = Marshal(record)
    /\ UNCHANGED <<codecRest, record, loaded>>

\* loadExecutionHistory: the file is read back.
Load ==
    /\ stored # NoRecord
    /\ loaded = NoRecord
    /\ loaded' = Unmarshal(stored)
    /\ UNCHANGED <<codecRest, record, stored>>

\* ------------------------------------------------- the retention sweep
\* cutoffTime := time.Now().AddDate(0, 0, -30)
RetentionDays == 30

SweepIds == 1..MaxFiles

\* A file whose modification time is the cutoff or later.
ExpiredAtCutoff(mtime, now) == mtime <= now - RetentionDays

\* info.ModTime().Before(cutoffTime)
Expired(mtime, now) == mtime < now - RetentionDays

\* ExecuteScript: the record of a new execution is put into the map.
SweepStart(id) ==
    /\ engine = "sweep"
    /\ id \notin live
    /\ id \notin DOMAIN disk
    /\ live' = live \cup {id}
    /\ UNCHANGED <<sweepRest, today, disk, refused, swept>>

\* The execution ends and saveExecution writes its file; a write error is
\* logged.
SweepSave(id) ==
    /\ id \in live
    /\ id \notin DOMAIN disk
    /\ \E written \in BOOLEAN :
          disk' = IF written THEN Put(disk, id, today) ELSE disk
    /\ UNCHANGED <<sweepRest, today, live, refused, swept>>

\* Days pass.
Tick ==
    /\ engine = "sweep"
    /\ today < MaxTicks * DaysPerTick
    /\ today' = today + DaysPerTick
    /\ UNCHANGED <<sweepRest, disk, live, refused, swept>>

\* The process is started again: the map holds what loadExecutionHistory
\* reads from the directory.
SweepRestart ==
    /\ engine = "sweep"
    /\ live # DOMAIN disk
    /\ live' = DOMAIN disk
    /\ UNCHANGED <<sweepRest, today, disk, refused, swept>>

\* The file system starts to refuse the removal of a file.
Refuse(id) ==
    /\ id \in DOMAIN disk
    /\ id \notin refused
    /\ refused' = refused \cup {id}
    /\ UNCHANGED <<sweepRest, today, disk, live, swept>>

\* cleanupOldExecutions, run by the ticker of startPeriodicCleanup: every
\* file older than the cutoff is removed and, when the removal succeeded,
\* its id is deleted from the map.
cleanupOldExecutions ==
    /\ engine = "sweep"
    /\ LET removed == {f \in DOMAIN disk : Expired(disk[f], today) /\ f \notin refused}
       IN /\ disk' = [f \in DOMAIN disk \ removed |-> disk[f]]
          /\ live' = live \ removed
          /\ swept' = IF swept < MaxFiles THEN swept + Cardinality(removed) ELSE swept
    /\ UNCHANGED <<sweepRest, today, refused>>

\* ------------------------------------------- the cleanup of the Go engine
\* request.MaxAgeHours = 24 when the request gives none
DefaultMaxAgeHours == 24

RecordIds == 1..MaxRecords

\* The max_age_hours of a request body.
MaxAgeRequests == {-1, 0, HoursPerTick, DefaultMaxAgeHours}

\* A cleanup that goes by the age alone.
EvictableAnyStatus(rec, cutoff) == rec.start < cutoff

\* execution.Status != "running" && execution.StartTime.Before(cutoff)
Evictable(rec, cutoff) == rec.status # "running" /\ rec.start < cutoff

\* ExecuteScript: a running record with StartTime = time.Now().
CleanupStart(id) ==
    /\ engine = "cleanup"
    /\ id \notin DOMAIN recs
    /\ id \notin evicted
    /\ recs' = Put(recs, id, [status |-> "running", start |-> hour])
    /\ UNCHANGED <<cleanupRest, hour, evicted>>

\* The execution reaches a terminal status.
CleanupEnd(id, st) ==
    /\ id \in DOMAIN recs
    /\ recs[id].status = "running"
    /\ recs' = [recs EXCEPT ![id].status = st]
    /\ UNCHANGED <<cleanupRest, hour, evicted>>

\* Hours pass.
HourTick ==
    /\ engine = "cleanup"
    /\ hour < MaxHourTicks * HoursPerTick
    /\ hour' = hour + HoursPerTick
    /\ UNCHANGED <<cleanupRest, recs, evicted>>

\* GoScriptEngine.CleanupOldExecutions(maxAge), under gse.mu.
CleanupOldExecutions(maxAge) ==
    LET cutoff == hour - maxAge
        gone == {id \in DOMAIN recs : Evictable(recs[id], cutoff)}
    IN /\ recs' = [id \in DOMAIN recs \ gone |-> recs[id]]
       /\ evicted' = evicted \cup gone
       /\ UNCHANGED <<cleanupRest, hour>>

\* GoScriptServer.cleanupExecutions: POST /cleanup with max_age_hours = h.
cleanupExecutions(h) ==
    /\ engine = "cleanup"
    /\ CleanupOldExecutions(IF h <= 0 THEN DefaultMaxAgeHours ELSE h)

\* ------------------------------------------- a ResponseWaiter on its own
\* The goroutines that hand responses to one ResponseWaiter, each a call of
\* HandleResponse, and the commands its facade issues.
Deliverers == 1..MaxDeliverers
CmdIds == 1..MaxCmds

\* RegisterCommand, called by executeCommand: a channel of capacity 1 is made
\* and put into the map under the command id.
WaiterRegister ==
    /\ engine = "waiter"
    /\ panicked = ""
    /\ wpc = "idle"
    /\ wcur < MaxCmds
    /\ wcur' = wcur + 1
    /\ wpending' = wpending \cup {wcur + 1}
    /\ chans' = Put(chans, wcur + 1, EmptyChan)
    /\ wpc' = "waiting"
    /\ UNCHANGED <<waiterRest, dpc, darg, panicked>>

\* The select of executeCommand takes a response from the channel.
WaiterReceive ==
    /\ panicked = ""
    /\ wpc = "waiting"
    /\ chans[wcur].buf # <<>>
    /\ chans' = [chans EXCEPT ![wcur].buf = <<>>]
    /\ wpc' = "idle"
    /\ UNCHANGED <<waiterRest, wpending, wcur, dpc, darg, panicked>>

\* The select of executeCommand takes the timer.
WaiterTimeout ==
    /\ panicked = ""
    /\ wpc = "waiting"
    /\ wpc' = "idle"
    /\ UNCHANGED <<waiterRest, wpending, chans, wcur, dpc, darg, panicked>>

\* HandleResponse, first part: under the read lock the channel of the
\* response's id is looked up; without an entry the call returns.
WaiterLookup(g, id) ==
    /\ panicked = ""
    /\ dpc[g] = "idle"
    /\ id \in wpending
    /\ dpc' = [dpc EXCEPT ![g] = "found"]
    /\ darg' = [darg EXCEPT ![g] = id]
    /\ UNCHANGED <<waiterRest, wpending, chans, wpc, wcur, panicked>>

\* HandleResponse, second part: the select with a default sends the
\* response if the channel has room. A send on a closed channel panics.
WaiterSend(g) ==
    /\ panicked = ""
    /\ dpc[g] = "found"
    /\ IF chans[darg[g]].closed
       THEN /\ panicked' = "send on closed channel"
            /\ UNCHANGED <<chans, dpc>>
       ELSE /\ chans' = [chans EXCEPT ![darg[g]].buf =
                            IF @ = <<>> THEN <<darg[g]>> ELSE @]
            /\ dpc' = [dpc EXCEPT ![g] = "sent"]
            /\ UNCHANGED panicked
    /\ UNCHANGED <<waiterRest, wpending, wpc, wcur, darg>>

\* HandleResponse, third part: under the write lock the entry is deleted
\* and the channel is closed. Closing a closed channel panics.
WaiterClose(g) ==
    /\ panicked = ""
    /\ dpc[g] = "sent"
    /\ wpending' = wpending \ {darg[g]}
    /\ IF chans[darg[g]].closed
       THEN /\ panicked' = "close of closed channel"
            /\ UNCHANGED <<chans, dpc>>
       ELSE /\ chans' = [chans EXCEPT ![darg[g]].closed = TRUE]
            /\ dpc' = [dpc EXCEPT ![g] = "idle"]
            /\ UNCHANGED panicked
    /\ UNCHANGED <<waiterRest, wpc, wcur, darg>>

\* ------------------------------------------------------------- the locks
\* The lock operations of one call, in program order: gse.mu is "engine",
\* rw.mu of the execution's facade is "correlator".
Op(kind, lock) == [kind |-> kind, lock |-> lock]

\* A script goroutine whose deferred function took the engine lock while it
\* still held the correlator lock.
ScriptProgramNested ==
    <<Op("Lock", "correlator"), Op("Lock", "engine"),
      Op("Unlock", "engine"), Op("Unlock", "correlator")>>

\* executeScriptAsync: the script registers a command (RegisterCommand, with
\* its deferred Unlock), and when it has returned the deferred function
\* deletes the sink under the engine lock.
ScriptProgram ==
    <<Op("Lock", "correlator"), Op("Unlock", "correlator"),
      Op("Lock", "engine"), Op("Unlock", "engine")>>

\* GoScriptEngine.HandleResponse: the read lock is held until the call
\* returns; inside, ResponseWaiter.HandleResponse looks up under the read
\* lock of the correlator and deletes under its write lock.
HandleResponseProgram ==
    <<Op("RLock", "engine"),
      Op("RLock", "correlator"), Op("RUnlock", "correlator"),
      Op("Lock", "correlator"), Op("Unlock", "correlator"),
      Op("RUnlock", "engine")>>

Program(t) ==
    CASE t = "execute" -> <<Op("Lock", "engine"), Op("Unlock", "engine")>>
      [] t = "get_status" -> <<Op("RLock", "engine"), Op("RUnlock", "engine")>>
      [] t = "cancel" -> <<Op("RLock", "engine"), Op("RUnlock", "engine")>>
      [] t = "cleanup" -> <<Op("Lock", "engine"), Op("Unlock", "engine")>>
      [] t = "handle_response" -> HandleResponseProgram
      [] t = "script" -> ScriptProgram

\* The operation thread t does next, if its call is not over.
InCall(t) == lpc[t] < Len(Program(t))
NextOp(t) == Program(t)[lpc[t] + 1]

\* Thread t holds lock l in the given mode: it has done the acquiring
\* operation and not yet the releasing one.
Holds(t, l, acquire, release) ==
    LET done == {i \in 1..lpc[t] : Program(t)[i].lock = l}
    IN /\ \E i \in done : Program(t)[i].kind = acquire
       /\ Cardinality({i \in done : Program(t)[i].kind = acquire})
             > Cardinality({i \in done : Program(t)[i].kind = release})
Writer(l) == {t \in Threads : Holds(t, l, "Lock", "Unlock")}
Readers(l) == {t \in Threads : Holds(t, l, "RLock", "RUnlock")}

\* The threads blocked inside Lock() of l.
PendingWriters(l) == {t \in Threads : InCall(t) /\ lcalled[t] /\ NextOp(t).lock = l}

\* sync.RWMutex.Lock, first part: the writer announces itself; from now on
\* new readers wait.
CallLock(t) ==
    /\ engine = "locks"
    /\ InCall(t)
    /\ NextOp(t).kind = "Lock"
    /\ ~lcalled[t]
    /\ lcalled' = [lcalled EXCEPT ![t] = TRUE]
    /\ UNCHANGED <<lockRest, lpc, lround>>

\* sync.RWMutex.Lock, second part: the lock is taken once no reader and no
\* writer holds it.
Lock(t) ==
    /\ InCall(t)
    /\ NextOp(t).kind = "Lock"
    /\ lcalled[t]
    /\ Writer(NextOp(t).lock) = {}
    /\ Readers(NextOp(t).lock) = {}
    /\ lcalled' = [lcalled EXCEPT ![t] = FALSE]
    /\ lpc' = [lpc EXCEPT ![t] = @ + 1]
    /\ UNCHANGED <<lockRest, lround>>

\* sync.RWMutex.RLock: a reader waits while a writer holds the lock or is
\* waiting for it.
RLock(t) ==
    /\ engine = "locks"
    /\ InCall(t)
    /\ NextOp(t).kind = "RLock"
    /\ Writer(NextOp(t).lock) = {}
    /\ PendingWriters(NextOp(t).lock) = {}
    /\ lpc' = [lpc EXCEPT ![t] = @ + 1]
    /\ UNCHANGED <<lockRest, lcalled, lround>>

\* Unlock and RUnlock.
Unlock(t) ==
    /\ InCall(t)
    /\ NextOp(t).kind \in {"Unlock", "RUnlock"}
    /\ lpc' = [lpc EXCEPT ![t] = @ + 1]
    /\ UNCHANGED <<lockRest, lcalled, lround>>

\* The call returns; the thread may make another.
CallReturns(t) ==
    /\ engine = "locks"
    /\ ~InCall(t)
    /\ lround[t] < MaxRounds
    /\ lround' = [lround EXCEPT ![t] = @ + 1]
    /\ lpc' = [lpc EXCEPT ![t] = 0]
    /\ UNCHANGED <<lockRest, lcalled>>

\* ------------------------------------------------------------ the restart
\* loadExecutionHistory: the record read back from <id>.json, put into the
\* map under its id. The records of the runs that shared an id differ in
\* their status alone, which is what the file holds of them.
loadExecutionHistory(r) ==
    IF engine = "yaml" /\ execution[r].id \in DOMAIN files
                       /\ executions[execution[r].id] = r
    THEN [execution[r] EXCEPT !.status = files[execution[r].id]]
    ELSE NoExecution

\* The process is stopped while no script goroutine and no API call is
\* running and is started again: NewGoScriptEngine makes an empty map,
\* NewScriptEngine makes one and fills it from the persistence directory.
\* The directory, the clock and the commands at the broker outlive the
\* process.
Restart ==
    /\ engine \in {"go", "yaml"}
    /\ \A r \in Runs : pc[r] \in {"idle", "done"}
    /\ \E r \in Runs : pc[r] = "done"
    /\ cpc = "idle"
    /\ execution' = [r \in Runs |-> loadExecutionHistory(r)]
    /\ executions' = [id \in {execution[r].id : r \in {x \in Runs :
                          loadExecutionHistory(x) # NoExecution}} |-> executions[id]]
    /\ responseChans' = <<>>
    /\ sink' = [r \in Runs |-> <<>>]
    /\ rchan' = [r \in Runs |-> 0]
    /\ pc' = [r \in Runs |-> "idle"]
    /\ spc' = [r \in Runs |-> 0]
    /\ sres' = [r \in Runs |-> ""]
    /\ pending' = [r \in Runs |-> {}]
    /\ curCmd' = [r \in Runs |-> NoCmd]
    /\ wchan' = [r \in Runs |-> EmptyChan]
    /\ outstanding' = [r \in Runs |-> {}]
    /\ ret' = [r \in Runs |-> NoReturn]
    /\ ctarget' = 0
    /\ reply' = "none"
    /\ UNCHANGED <<extraVars, agentVars, engine, workload, clock, nruns, files, published,
                   ncancel, cpc, nrejected>>

RestartNext == Next \/ Restart

\* The server over several lives of its process.
RestartSpec == Init /\ [][RestartNext]_vars

\* The persistence of one record on its own.
CodecInit ==
    /\ engine = "none"
    /\ workload = [runs |-> 0, cancels |-> 0, rejects |-> 0]
    /\ EngineIdle
    /\ agent = "none"
    /\ AgentIdle
    /\ ExtraIdle

CodecNext ==
    \/ \E rec \in ScriptExecutions : Pick(rec)
    \/ Save
    \/ Load

CodecSpec == CodecInit /\ [][CodecNext]_vars

\* The persistence directory and the map under the daily sweep.
SweepInit ==
    /\ engine = "sweep"
    /\ workload = [runs |-> 0, cancels |-> 0, rejects |-> 0]
    /\ EngineIdle
    /\ agent = "none"
    /\ AgentIdle
    /\ ExtraIdle

SweepNext ==
    \/ \E id \in SweepIds : SweepStart(id)
    \/ \E id \in SweepIds : SweepSave(id)
    \/ Tick
    \/ SweepRestart
    \/ \E id \in SweepIds : Refuse(id)
    \/ cleanupOldExecutions

SweepSpec == SweepInit /\ [][SweepNext]_vars

\* The map of the Go engine under the cleanup call.
CleanupInit ==
    /\ engine = "cleanup"
    /\ workload = [runs |-> 0, cancels |-> 0, rejects |-> 0]
    /\ EngineIdle
    /\ agent = "none"
    /\ AgentIdle
    /\ ExtraIdle

CleanupNext ==
    \/ \E id \in RecordIds : CleanupStart(id)
    \/ \E id \in RecordIds, st \in Terminal : CleanupEnd(id, st)
    \/ HourTick
    \/ \E h \in MaxAgeRequests : cleanupExecutions(h)

CleanupSpec == CleanupInit /\ [][CleanupNext]_vars

\* One ResponseWaiter with responses, duplicated ones among them, handed to
\* it on several goroutines.
WaiterInit ==
    /\ engine = "waiter"
    /\ workload = [runs |-> 0, cancels |-> 0, rejects |-> 0]
    /\ EngineIdle
    /\ agent = "none"
    /\ AgentIdle
    /\ ExtraIdle

WaiterNext ==
    \/ WaiterRegister
    \/ WaiterReceive
    \/ WaiterTimeout
    \/ \E g \in Deliverers, id \in CmdIds : WaiterLookup(g, id)
    \/ \E g \in Deliverers : WaiterSend(g)
    \/ \E g \in Deliverers : WaiterClose(g)

WaiterSpec == WaiterInit /\ [][WaiterNext]_vars

\* The API calls, the response handler and a script goroutine on the
\* engine lock and one correlator lock.
LockInit ==
    /\ engine = "locks"
    /\ workload = [runs |-> 0, cancels |-> 0, rejects |-> 0]
    /\ EngineIdle
    /\ agent = "none"
    /\ AgentIdle
    /\ ExtraIdle

LockNext ==
    \/ \E t \in Threads : CallLock(t)
    \/ \E t \in Threads : Lock(t)
    \/ \E t \in Threads : RLock(t)
    \/ \E t \in Threads : Unlock(t)
    \/ \E t \in Threads : CallReturns(t)

LockSpec == LockInit /\ [][LockNext]_vars

\* ------------------------------------------------------------- properties

\* C1: no wait is satisfied by a response with another id. In the Go engine
\* the response executeCommand takes from its channel carries the id of the
\* command it registered; in the YAML engine a response taken from the sink
\* with another id never ends the wait with that response: the wait goes on
\* for the same command, or waitForResponse gives up with an error.
C1_WaitReturnsMatchingId ==
    [][\A r \in Runs :
          /\ Receive(r) => Head(wchan[r].buf).id = curCmd[r].id
          /\ (YamlReceive(r) /\ Head(sink[rchan[r]]).id # curCmd[r].id) =>
                \/ pc'[r] = "waitMore" /\ curCmd'[r] = curCmd[r] /\ spc'[r] = spc[r]
                \/ /\ pc[r] = "waitMore"
                   /\ pc'[r] = "save"
                   /\ execution'[r].status = "failed"]_vars

\* Two executions wait for commands with different ids and a response has
\* been handed to one of them.
C1_Witness ==
    \E r \in Runs, q \in Runs :
        /\ r # q
        /\ engine = "go"
        /\ pc[r] = "waiting" /\ wchan[r].buf # <<>>
        /\ pc[q] = "waiting" /\ curCmd[q].id # curCmd[r].id

\* C2: a response whose id is that of a command with a registered wait that
\* has not timed out reaches that wait, however many executions are live:
\* when the agent answers command c while c's run waits for it, the response
\* is on that run's channel afterwards.
C2_ResponseReachesItsWaiter ==
    [][\A c \in published :
          (/\ engine = "go"
           /\ DeviceResponse(c)
           /\ IsCurrent(c.run, c.id)
           /\ wchan[c.run].buf = <<>>) => wchan'[c.run].buf # <<>>]_vars

\* C3: a response is handed only to the execution whose execution id is a
\* prefix of the response's command id: whatever is put on the channel of a
\* run's facade, or into the sink made for a run, carries an id that starts
\* with that run's execution id.
C3_DeliveryOnlyByPrefix ==
    [][\A r \in Runs :
          /\ (wchan'[r].buf # wchan[r].buf /\ wchan'[r].buf # <<>>) =>
                HasPrefix(Head(wchan'[r].buf).id, execution[r].id)
          /\ Len(sink'[r]) > Len(sink[r]) =>
                HasPrefix(sink'[r][Len(sink'[r])].id, execution[r].id)]_vars

\* C4: terminal states are absorbing: no step changes the status of an
\* execution that is completed, failed or cancelled.
C4_TerminalAbsorbing ==
    [][\A r \in Runs :
          execution[r].status \in Terminal =>
              execution'[r].status = execution[r].status]_vars

\* C5: an execution cancelled while it was running has status cancelled once
\* its goroutine has returned and the cancel call is over.
C5_CancelledStaysCancelled ==
    \A r \in Runs :
        (execution[r].cancelled /\ pc[r] = "done" /\ cpc = "idle") =>
            execution[r].status = "cancelled"

\* C6: a cancel call does not alter a terminal execution, however the call
\* interleaves with the goroutine's own terminal transition: the call does
\* not write the status of a record that is terminal, nor the end time of a
\* record the goroutine has made completed or failed.
C6_CancelLeavesTerminalAlone ==
    [][/\ (CancelSetStatus /\ execution[ctarget].status \in Terminal) =>
              execution'[ctarget].status = execution[ctarget].status
       /\ (CancelSetEndTime /\ execution[ctarget].status \in {"completed", "failed"}) =>
              execution'[ctarget].endTime = execution[ctarget].endTime]_vars

\* C7: in every state of the Go engine, which GetExecutionStatus and
\* ListExecutions can observe, an execution whose status is completed, failed
\* or cancelled has its end time set.
C7_TerminalHasEndTime ==
    \A r \in Runs :
        (engine = "go" /\ execution[r].status \in Terminal) => execution[r].endTime # 0

\* C8: the status of an execution whose goroutine has returned is completed,
\* failed or cancelled, and no file of the persistence directory holds the
\* status running.
C8_FinalStatusTerminal ==
    /\ \A r \in Runs : pc[r] = "done" => execution[r].status \in Terminal
    /\ \A f \in DOMAIN files : files[f] # "running"

\* An execution of the YAML engine has ended and its record is on disk.
C8_Witness ==
    \E r \in Runs :
        engine = "yaml" /\ pc[r] = "done" /\ execution[r].id \in DOMAIN files

\* C9: no command is published for an execution that has terminated: a step
\* that hands a new command of run r to the broker starts in a state where
\* r's status is running.
C9_NoPublishAfterTerminal ==
    [][\A r \in Runs :
          (\E c \in published' \ published : c.run = r) =>
              execution[r].status = "running"]_vars

\* C10: each execution has at most one outstanding command: of the commands a
\* run has published, at most one has a wait that has not returned.
C10_OneOutstandingCommand ==
    \A r \in Runs : Cardinality(outstanding[r]) <= 1

\* A run waits for its second command, published after the wait of the first
\* returned.
C10_Witness ==
    \E r \in Runs :
        /\ pc[r] = "waiting"
        /\ Cardinality(outstanding[r]) = 1
        /\ \/ engine = "go" /\ spc[r] = 2
           \/ engine = "yaml" /\ spc[r] = 1

\* C11: every running execution owns the response sink registered under its
\* execution id, and no terminated execution has one: a record whose status
\* is running has its id in responseChans, mapped to the sink made for it,
\* and a record whose status is completed, failed or cancelled has not.
C11_SinkIffRunning ==
    \A r \in 1..nruns :
        LET id == execution[r].id
            owns == id \in DOMAIN responseChans /\ responseChans[id] = r
        IN /\ execution[r].status = "running" => owns
           /\ execution[r].status \in Terminal => ~owns

\* C12: a response that arrives for an execution after it has terminated is
\* discarded: when the agent answers a command of a run whose status is
\* completed, failed or cancelled, no channel, no sink and no correlator
\* entry changes.
C12_NoDeliveryAfterTermination ==
    [][\A c \in published :
          (DeviceResponse(c) /\ execution[c.run].status \in Terminal) =>
              (wchan' = wchan /\ sink' = sink /\ pending' = pending)]_vars

\* C13: once the wait for a command has returned, by a response or by the
\* timeout, the correlator map holds no entry for that command id: the map
\* of an execution's facade is empty whenever the execution has no
\* outstanding command.
C13_CorrelatorEmptyWhenIdle ==
    \A r \in Runs : outstanding[r] = {} => pending[r] = {}

\* C14: when no response with the command's id arrives before the deadline,
\* the wait returns, without an error, a synthesized response carrying the
\* id of the command waited for, status "timeout" and error "command
\* execution timeout".
C14_TimeoutIsSynthesizedResponse ==
    [][\A r \in Runs :
          (ret'[r] # ret[r] /\ ret'[r].cause = "timeout") =>
              /\ ret'[r].err = ""
              /\ ret'[r].id = curCmd[r].id
              /\ ret'[r].status = "timeout"
              /\ ret'[r].error = "command execution timeout"]_vars

\* C15: no two commands ever share an id; here for the commands of
\* concurrently running executions: two executions that are each waiting for
\* the response to a command wait for commands with different ids.
C15_CommandIdsUnique ==
    \A r1, r2 \in Runs :
        (r1 # r2 /\ pc[r1] = "waiting" /\ pc[r2] = "waiting") =>
            curCmd[r1].id # curCmd[r2].id

\* C16: every command published on behalf of an execution has an id that
\* begins with that execution's id.
C16_CommandIdHasExecutionPrefix ==
    \A c \in published : HasPrefix(c.id, execution[c.run].id)

\* C17: an execute whose execution id collides with a still-live record is
\* answered with an error: no execution is ever started under the id of a
\* record that is still running.
C17_CollisionIsReported ==
    [][nruns' = nruns + 1 =>
          \A r \in 1..nruns :
              execution[r].status = "running" =>
                  execution'[nruns'].id # execution[r].id]_vars

C20_PublishFailureIsErrorResponse ==
    \A r \in Runs : ret[r].cause = "publish" => ret[r].status = "error"

\* C20, amended: when a publish fails, the primitive hands the script no
\* response but the error "publish command failed: ..."; the command is not
\* waited for, and the script is left to recover or propagate.
C20_PublishFailureIsErrorReturn ==
    \A r \in Runs :
        ret[r].cause = "publish" =>
            /\ ret[r].status = "none"
            /\ ret[r].err = "publish command failed"
            /\ pc[r] \notin {"waiting", "waitMore"}
            /\ curCmd[r] = NoCmd

\* A primitive's publish failed and its execution has ended failed.
C20_Witness ==
    \E r \in 1..nruns :
        /\ ret[r].cause = "publish"
        /\ ret[r].err = "publish command failed"
        /\ execution[r].status = "failed"

C22_CommandTopic ==
    \A c \in published :
        c.topic = <<"device", "no_", execution[c.run].deviceID, "command">>

\* C23: if the device never responds to the command of a screenshot script,
\* then after the facade timeout the execution terminates failed and no
\* further command is published for it: once the Screenshot call of such an
\* execution has returned the timeout response, no step publishes a command
\* of that execution, and when its goroutine has ended the execution, unless
\* a cancel call was accepted for it, has status "failed".
C23_ScreenshotTimeoutFails ==
    [][\A r \in Runs :
          (/\ engine = "go"
           /\ execution'[r].scriptName = "screenshot"
           /\ ret'[r].cause = "timeout") =>
              /\ {c \in published' : c.run = r} \subseteq published
              /\ pc'[r] \notin {"start", "waiting"}
              /\ sres'[r] = "fail"
              /\ (pc'[r] = "done" /\ ~execution'[r].cancelled) =>
                     execution'[r].status = "failed"]_vars

\* The Screenshot call of a screenshot script has timed out and the
\* execution has ended failed.
C23_Witness ==
    \E r \in 1..nruns :
        /\ engine = "go"
        /\ execution[r].scriptName = "screenshot"
        /\ ret[r].cause = "timeout"
        /\ pc[r] = "done"
        /\ execution[r].status = "failed"

\* C24: find_and_click, when the screenshot response holds a text position
\* that matches the target, publishes one screenshot command and then one tap
\* command, and no other: the tap (unless the broker refuses it) is published
\* on the device's command topic with the coordinates (x + width/2,
\* y + height/2) of the matched position, and when the tap's response is a
\* success the script returns success and the execution, unless a cancel
\* call was accepted for it, ends completed.
C24_FindAndClickTapsCentre ==
    [][\A r \in Runs :
          (engine = "go" /\ execution'[r].scriptName = "find_and_click") =>
              /\ curCmd'[r] # NoCmd =>
                     /\ \/ spc'[r] = 1 /\ curCmd'[r].type = "screenshot"
                        \/ spc'[r] = 2 /\ curCmd'[r].type = "tap"
                     /\ curCmd'[r].topic =
                            <<"device", "no_", execution'[r].deviceID, "command">>
              /\ (/\ Receive(r)
                  /\ spc[r] = 1
                  /\ Head(wchan[r].buf).status = "success"
                  /\ Head(wchan[r].buf).found) =>
                     LET pos == Head(wchan[r].buf).pos
                     IN \/ ret'[r] = PublishFailed
                        \/ /\ curCmd'[r] \in published'
                           /\ curCmd'[r].type = "tap"
                           /\ curCmd'[r].x = pos.x + pos.width \div 2
                           /\ curCmd'[r].y = pos.y + pos.height \div 2
              /\ (/\ Receive(r)
                  /\ spc[r] = 2
                  /\ Head(wchan[r].buf).status = "success") =>
                     sres'[r] = "success" /\ pc'[r] = "endSet"
              /\ (pc'[r] = "done" /\ sres'[r] = "success"
                                 /\ ~execution'[r].cancelled) =>
                     execution'[r].status = "completed"]_vars

\* A find_and_click execution has published its tap, the device has
\* answered it with a success and the execution has ended completed.
C24_Witness ==
    \E r \in 1..nruns :
        /\ engine = "go"
        /\ execution[r].scriptName = "find_and_click"
        /\ spc[r] = 2
        /\ ret[r].cause = "response"
        /\ ret[r].status = "success"
        /\ pc[r] = "done"
        /\ execution[r].status = "completed"

\* C25: find_and_click with required=false whose screenshot shows no text
\* that matches returns success (its result says found=false) and publishes
\* no tap command: the script function returns at once, the execution has
\* no command in hand and nothing is handed to the broker; no execution of
\* find_and_click ever holds a tap without a match before it.
C25_OptionalMissIsSuccess ==
    [][\A r \in Runs :
          (/\ Receive(r)
           /\ execution[r].scriptName = "find_and_click"
           /\ ~execution[r].variables.required
           /\ spc[r] = 1
           /\ Head(wchan[r].buf).status = "success"
           /\ ~Head(wchan[r].buf).found) =>
              /\ sres'[r] = "success"
              /\ pc'[r] = "endSet"
              /\ curCmd'[r] = NoCmd
              /\ published' = published
              /\ \A c \in published' : c.run = r => c.type # "tap"]_vars

\* An optional find_and_click has ended completed after its screenshot, its
\* only command, was answered without a match.
C25_Witness ==
    \E r \in 1..nruns :
        /\ engine = "go"
        /\ execution[r].scriptName = "find_and_click"
        /\ ~execution[r].variables.required
        /\ spc[r] = 1
        /\ ret[r].cause = "response"
        /\ ret[r].status = "success"
        /\ pc[r] = "done"
        /\ execution[r].status = "completed"

\* --------------------------------------------------------------------- C26
\* The responses the agent has published that carry the id of command c.
ResponsesTo(c) == {i \in 1..Len(sent) : sent[i].id = c.id}

\* handleCommand has been called for the k-th delivered command and has
\* returned.
Handled(k) ==
    /\ k \in 1..Len(delivered)
    /\ \A i \in 1..Len(inbox) : inbox[i] # delivered[k]
    /\ delivered[k] \notin handling

\* The types the dispatch of src/client knows among those modelled.
KnownTypes == {"shell", "tap"}

\* C26: the agent publishes for every command it has received and handled
\* exactly one response, that response carries the command's id, no
\* response is published for a command still waiting or for no command at
\* all, and the one response to a command of unknown type has status error
\* (the agent of src/client, which dispatches on the type).
C26_OneResponsePerCommand ==
    /\ \A i \in 1..Len(sent) : \E k \in 1..Len(delivered) : sent[i].id = delivered[k].id
    /\ \A k \in 1..Len(delivered) :
          /\ Cardinality(ResponsesTo(delivered[k])) = (IF Handled(k) THEN 1 ELSE 0)
          /\ (agent = "client" /\ Handled(k) /\ delivered[k].type \notin KnownTypes)
                => \A i \in ResponsesTo(delivered[k]) : sent[i].status = "error"

\* Three commands have been answered, one of unknown type among them and one
\* that ran a tool.
C26_Witness ==
    /\ agent = "client"
    /\ Len(sent) = 3
    /\ \E k \in 1..Len(delivered) : Handled(k) /\ delivered[k].type = "bogus"
                                       /\ delivered[k].command = "ls"
    /\ \E k \in 1..Len(delivered) : Handled(k) /\ delivered[k].id \in invoked
\* --------------------------------------------------------------------- C27
\* handleCommand has been called for the k-th delivered command.
Started(k) ==
    /\ k \in 1..Len(delivered)
    /\ \A i \in 1..Len(inbox) : inbox[i] # delivered[k]

\* C27: the agent executes one command at a time: whenever it has started on
\* a command, the response to every command it received before that one has
\* been published, so at most one command is in execution.
C27_OneCommandAtATime ==
    /\ Cardinality(handling) <= 1
    /\ \A k \in 1..Len(delivered) :
          Started(k) => \A j \in 1..(k - 1) : Cardinality(ResponsesTo(delivered[j])) = 1

\* The agent runs the tool of its second command while a third waits; the
\* first ran a tool as well and has been answered.
C27_Witness ==
    /\ Len(delivered) = 3
    /\ delivered[1].id \in invoked
    /\ delivered[2] \in handling
    /\ inbox = <<delivered[3]>>
\* --------------------------------------------------------------------- C28
\* C28: when the tool run for a command outlasts the command's timeout the
\* agent's response to that command has status timeout, and when the tool
\* ends within the timeout with a non-zero exit the response has status
\* error.
C28_OverrunIsTimeout ==
    \A t \in toolLog : \A i \in 1..Len(sent) :
        sent[i].id = t.id =>
            /\ t.overran => sent[i].status = "timeout"
            /\ (~t.overran /\ t.exit # "zero") => sent[i].status = "error"
\* --------------------------------------------------------------------- C29
\* C29: the agent that dispatches on the command type rejects a tap with
\* x <= 0 or y <= 0: once it has handled the command its response has status
\* error, and it runs no tool for the command at any time.
C29_BadTapRejected ==
    agent = "client" =>
        \A k \in 1..Len(delivered) :
            (delivered[k].type = "tap" /\ (delivered[k].x <= 0 \/ delivered[k].y <= 0))
                => /\ delivered[k].id \notin invoked
                   /\ delivered[k] \notin handling
                   /\ \A i \in ResponsesTo(delivered[k]) : sent[i].status = "error"

\* A tap with x = 0 and a tap with y < 0 have both been answered, and a tap
\* with positive coordinates has run the tool.
C29_Witness ==
    /\ agent = "client"
    /\ \E k \in 1..Len(delivered) : Handled(k) /\ delivered[k].type = "tap"
                                       /\ delivered[k].x = 0
    /\ \E k \in 1..Len(delivered) : Handled(k) /\ delivered[k].type = "tap"
                                       /\ delivered[k].y < 0
    /\ \E k \in 1..Len(delivered) : Handled(k) /\ delivered[k].type = "tap"
                                       /\ delivered[k].id \in invoked
\* --------------------------------------------------------------------- C30
\* C30: restart recovery: when the process is started again, every
\* execution that had terminated has its file <execution_id>.json in the
\* persistence directory, and the map of the new process holds under its id
\* a record equal to the one the old process held.
C30_RestartRecovers ==
    [][Restart =>
          \A r \in Runs :
              pc[r] = "done" =>
                  /\ execution[r].id \in DOMAIN files
                  /\ execution[r].id \in DOMAIN executions'
                  /\ execution'[executions'[execution[r].id]] = execution[r]]_vars
\* --------------------------------------------------------------------- C31
\* Equality of two values as data: a number by its value, a map by its
\* entries (a nil map has none), a time by its instant.
SameNumber(a, b) == JsonOfNumber(a) = JsonOfNumber(b)
Entries(m) == IF m = NilMap THEN <<>> ELSE m.map
SameMap(a, b) ==
    /\ DOMAIN Entries(a) = DOMAIN Entries(b)
    /\ \A k \in DOMAIN Entries(a) : SameNumber(Entries(a)[k], Entries(b)[k])
SameTime(a, b) == (a = NilPtr /\ b = NilPtr) \/ (a # NilPtr /\ b # NilPtr /\ a.wall = b.wall)
SameResult(a, b) ==
    \/ a = NilPtr /\ b = NilPtr
    \/ /\ a # NilPtr /\ b # NilPtr
       /\ a.success = b.success /\ a.message = b.message /\ a.error = b.error
       /\ a.duration = b.duration /\ SameMap(a.data, b.data)

\* Structural equality of two records: every field of the record's
\* serialized schema is equal as data. Context is the goroutine's handle and
\* no field of that schema.
SameRecord(a, b) ==
    /\ a.id = b.id /\ a.script_name = b.script_name /\ a.device_id = b.device_id
    /\ a.status = b.status
    /\ SameMap(a.variables, b.variables)
    /\ SameTime(a.start_time, b.start_time)
    /\ SameTime(a.end_time, b.end_time)
    /\ SameResult(a.result, b.result)

C32_FilesImmutable ==
    [][\A f \in DOMAIN files : f \in DOMAIN files' /\ files'[f] = files[f]]_vars
\* --------------------------------------------------------------------- C33
\* The files older than 30 days that the file system lets go of.
Swept == {f \in DOMAIN disk : today - disk[f] > RetentionDays /\ f \notin refused}

\* C33: the retention sweep removes exactly the files whose modification
\* time is more than 30 days back (a file whose removal the file system
\* refuses stays, and so does its record), deletes exactly the ids of the
\* removed files from the map, and leaves every other file with its
\* modification time and every other record in place.
C33_SweepRemovesExactlyOld ==
    [][cleanupOldExecutions =>
          /\ DOMAIN disk' = DOMAIN disk \ Swept
          /\ \A f \in DOMAIN disk' : disk'[f] = disk[f]
          /\ live' = live \ Swept]_vars

\* A sweep has removed a file; a file written exactly 30 days ago and its
\* record are still there, and so is a running execution.
C33_Witness ==
    /\ swept > 0
    /\ \E f \in DOMAIN disk : today - disk[f] = RetentionDays /\ f \in live
    /\ \E id \in live : id \notin DOMAIN disk
\* --------------------------------------------------------------------- C34
\* The max age a cleanup request asks for: 24 hours when it names none.
AskedMaxAge(h) == IF h <= 0 THEN 24 ELSE h

\* C34: the cleanup call deletes from the map only terminal records that
\* started more than max_age_hours ago: a running execution and a terminal
\* one no older than that stay in the map as they are.
C34_CleanupEvictsOnlyOldTerminal ==
    [][\A h \in MaxAgeRequests :
          cleanupExecutions(h) =>
              \A id \in DOMAIN recs :
                  (recs[id].status = "running" \/ hour - recs[id].start <= AskedMaxAge(h))
                      => (id \in DOMAIN recs' /\ recs'[id] = recs[id])]_vars

\* A cleanup has deleted a record while a running execution that is older
\* than 24 hours and a terminal one that is exactly 24 hours old are in the
\* map.
C34_Witness ==
    /\ evicted # {}
    /\ \E id \in DOMAIN recs : recs[id].status = "running" /\ hour - recs[id].start > 24
    /\ \E id \in DOMAIN recs : recs[id].status \in Terminal /\ hour - recs[id].start = 24
\* --------------------------------------------------------------------- C35
\* C35: two responses with the same command id handed to the correlator on
\* two goroutines never make it close the command's channel twice or send on
\* it after it was closed: no such delivery ends in a runtime panic.
C35_DuplicateDeliveryIsSafe == panicked = ""
\* --------------------------------------------------------------------- C36
\* Thread t is waiting for lock l.
WaitsFor(t, l) ==
    /\ InCall(t)
    /\ NextOp(t).lock = l
    /\ \/ NextOp(t).kind = "Lock"
          /\ (Writer(l) \cup Readers(l)) \ {t} # {}
       \/ NextOp(t).kind = "RLock"
          /\ (Writer(l) # {} \/ PendingWriters(l) # {})

\* C36: the calls on the engine lock and on a correlator lock never
\* deadlock: while some call is under way some thread can take a step, a
\* thread that holds a lock and waits for none can always go on to release
\* it, and when handle_response, holding the engine read lock, waits for the
\* correlator lock, no holder of that lock waits for the engine lock.
C36_NoDeadlock ==
    /\ (\E t \in Threads : InCall(t)) => ENABLED LockNext
    /\ \A t \in Threads :
          (InCall(t) /\ NextOp(t).kind \in {"Unlock", "RUnlock"}) => ENABLED Unlock(t)
    /\ WaitsFor("handle_response", "correlator") =>
          \A h \in Writer("correlator") \cup Readers("correlator") :
              ~WaitsFor(h, "engine")

\* handle_response holds the engine read lock and waits for the correlator
\* lock, which the script goroutine holds, while cleanup waits for the engine
\* lock as a writer and get_status waits behind it.
C36_Witness ==
    /\ WaitsFor("handle_response", "correlator")
    /\ "script" \in Writer("correlator")
    /\ "cleanup" \in PendingWriters("engine")
    /\ WaitsFor("get_status", "engine")

\* ------------------------------------------------ the scheduler's promise
\* The goroutine `go gse.executeScriptAsync(...)` of engine.go:81, and the
\* goroutine `go se.executeSteps(...)` of the YAML engine, is scheduled for as
\* long as it can run: whichever of its steps is possible is taken in the end. The timer of time.After(timeout) in executeCommand's select is
\* part of that: a wait that stays open sees its timer fire. Nothing is
\* promised about the device (DeviceResponse), the API callers or the
\* cancelling caller.
executeScriptAsync(r) ==
    \/ RunScript(r)
    \/ Receive(r)
    \/ Timeout(r)
    \/ SetStatus(r)
    \/ Deferred(r)
    \/ RecoverSetStatus(r)
    \/ RecoverSetEndTime(r)

FairSpec == Init /\ [][Next]_vars /\ \A r \in Runs : WF_vars(executeScriptAsync(r))

executeSteps(r) ==
    \/ YamlRunSteps(r)
    \/ YamlReceive(r)
    \/ YamlTimeout(r)
    \/ saveExecution(r)
    \/ YamlDeferred(r)

YamlFairSpec == Init /\ [][Next]_vars /\ \A r \in Runs : WF_vars(executeSteps(r))

ServiceIds == 0..MaxSeconds

\* What s.client.ExecuteCommand hands back to the runner: an error, or a
\* response of some status.
RunnerOutcomes == {"err", "success", "timeout", "error"}

\* updateExecutionStatus: the records after the call. The record the map
\* holds under the id is the one written.
updateExecutionStatus(table, id, status, error) ==
    IF id \in DOMAIN cmap
    THEN [table EXCEPT ![cmap[id]] =
            [@ EXCEPT !.status = status,
                      !.error = IF error # "" THEN error ELSE @,
                      !.ended = @ \/ status \in {"completed", "failed", "timeout"}]]
    ELSE table

\* The clock moves on to the next second.
ServiceTick ==
    /\ engine = "service"
    /\ cnow < MaxSeconds
    /\ cnow' = cnow + 1
    /\ UNCHANGED <<crecs, cmap, runner, cancelRet, serviceRest>>

\* ExecuteCommand: a pending record is stored under its id and its runner is
\* started.
ExecuteCommand ==
    /\ engine = "service"
    /\ Len(crecs) < MaxCommands
    /\ crecs' = Append(crecs, [id |-> cnow, status |-> "pending", error |-> "",
                               ended |-> FALSE])
    /\ cmap' = Put(cmap, cnow, Len(crecs) + 1)
    /\ runner' = Append(runner, "spawned")
    /\ UNCHANGED <<cnow, cancelRet, serviceRest>>

\* runCommand, its first statement.
runCommandBegins(i) ==
    /\ engine = "service"
    /\ i \in DOMAIN runner
    /\ runner[i] = "spawned"
    /\ crecs' = updateExecutionStatus(crecs, crecs[i].id, "running", "")
    /\ runner' = [runner EXCEPT ![i] = "executing"]
    /\ UNCHANGED <<cnow, cmap, cancelRet, serviceRest>>

\* The status runCommand reports for what the client handed back, and the
\* error text it passes on: err.Error(), or the response's Error.
RunnerStatus(out) ==
    CASE out = "err" -> "failed"
      [] out = "success" -> "completed"
      [] out = "timeout" -> "timeout"
      [] OTHER -> "failed"

RunnerError(out) == IF out = "success" THEN "" ELSE out

\* runCommand once s.client.ExecuteCommand has returned: the end time is set
\* on the runner's own record, the status through the map.
runCommandEnds(i, out) ==
    /\ engine = "service"
    /\ i \in DOMAIN runner
    /\ runner[i] = "executing"
    /\ crecs' = updateExecutionStatus([crecs EXCEPT ![i].ended = TRUE], crecs[i].id,
                                      RunnerStatus(out), RunnerError(out))
    /\ runner' = [runner EXCEPT ![i] = "done"]
    /\ UNCHANGED <<cnow, cmap, cancelRet, serviceRest>>

\* CancelExecution(id).
CancelExecution(id) ==
    /\ engine = "service"
    /\ IF id \notin DOMAIN cmap
       THEN /\ cancelRet' = "missing"
            /\ UNCHANGED crecs
       ELSE IF crecs[cmap[id]].status = "pending"
            THEN /\ crecs' = [crecs EXCEPT ![cmap[id]] =
                                [@ EXCEPT !.status = "cancelled", !.ended = TRUE,
                                          !.error = "cancelled by user"]]
                 /\ cancelRet' = "ok"
            ELSE /\ cancelRet' = "already running"
                 /\ UNCHANGED crecs
    /\ UNCHANGED <<cnow, cmap, runner, serviceRest>>

ServiceInit ==
    /\ engine = "service"
    /\ workload = [runs |-> 0, cancels |-> 0, rejects |-> 0]
    /\ EngineIdle
    /\ agent = "none"
    /\ AgentIdle
    /\ ExtraIdle

ServiceNext ==
    \/ ServiceTick
    \/ ExecuteCommand
    \/ \E i \in 1..MaxCommands : runCommandBegins(i)
    \/ \E i \in 1..MaxCommands, out \in RunnerOutcomes : runCommandEnds(i, out)
    \/ \E id \in ServiceIds : CancelExecution(id)

ServiceSpec == ServiceInit /\ [][ServiceNext]_vars

\* C38: a command whose status became cancelled keeps that status: no step
\* of its runner, and no other step, moves it to running, completed, failed
\* or timeout.
C38_CancelledStays ==
    [][\A i \in DOMAIN crecs :
          crecs[i].status = "cancelled" => crecs'[i].status = "cancelled"]_vars

\* C39: the step loop of the YAML engine ends for every loaded script:
\* executeSteps, once started, gets to its end (the record saved, the sink
\* deleted), also when on_success or on_failure name the current or an
\* earlier step.
C39_StepLoopTerminates ==
    \A r \in Runs : (engine = "yaml" /\ pc[r] = "start") ~> (pc[r] = "done")

\* ------------------------------------------ a long script and a late device
\* One execution of a YAML script of plain steps (no condition, no on_success,
\* no on_failure, no wait), long enough for its timed-out commands to fill the
\* sink. The device deals with the commands in the order they were published
\* and answers each at most once, as late as it likes. A command is named by
\* its number in the script, from 1: the ids executeCommand builds from the
\* execution id and time.Now().UnixNano() differ from step to step.
LongScriptSteps == SinkCapacity + 1

\* Whether executeCommand or waitForResponse is waiting for command id.
StaleCurrent(id) == qpc \in {"waiting", "waitMore"} /\ id = qi + 1

\* ExecuteScript: the sink is made and executeSteps started.
StaleExecuteScript ==
    /\ engine = "stale"
    /\ qpc = "none"
    /\ qchan' = TRUE
    /\ qstatus' = "running"
    /\ qpc' = "loop"
    /\ UNCHANGED <<qi, qsink, qflight, qfull, staleRest>>

\* The head of the loop of executeSteps and executeCommand up to its select.
StaleLoop ==
    /\ engine = "stale"
    /\ qpc = "loop"
    /\ IF qi < LongScriptSteps
       THEN \E brokerOk \in BOOLEAN :
              IF brokerOk
              THEN /\ qflight' = Append(qflight, qi + 1)
                   /\ qpc' = "waiting"
                   /\ UNCHANGED qstatus
              ELSE /\ qstatus' = "failed"
                   /\ qpc' = "defer"
                   /\ UNCHANGED qflight
       ELSE /\ qstatus' = "completed"
            /\ qpc' = "defer"
            /\ UNCHANGED qflight
    /\ UNCHANGED <<qi, qsink, qchan, qfull, staleRest>>

\* The select of executeCommand and of waitForResponse: a response is taken
\* from the sink. One with another id is dropped and the wait goes on in
\* waitForResponse, whose loop ends with an error when the deadline has
\* passed by then.
StaleReceive ==
    /\ engine = "stale"
    /\ qpc \in {"waiting", "waitMore"}
    /\ qsink # <<>>
    /\ qsink' = Tail(qsink)
    /\ LET resp == Head(qsink)
       IN IF resp.id = qi + 1
          THEN IF resp.status = "error"
               THEN /\ qstatus' = "failed"
                    /\ qpc' = "defer"
                    /\ UNCHANGED qi
               ELSE /\ qi' = qi + 1
                    /\ qpc' = "loop"
                    /\ UNCHANGED qstatus
          ELSE \E expired \in BOOLEAN :
                 IF expired /\ qpc = "waitMore"
                 THEN /\ qstatus' = "failed"
                      /\ qpc' = "defer"
                      /\ UNCHANGED qi
                 ELSE /\ qpc' = "waitMore"
                      /\ UNCHANGED <<qi, qstatus>>
    /\ UNCHANGED <<qflight, qchan, qfull, staleRest>>

\* time.After fires: the step gets a response of status timeout and the loop
\* goes on with the next step.
StaleTimeout ==
    /\ engine = "stale"
    /\ qpc \in {"waiting", "waitMore"}
    /\ qi' = qi + 1
    /\ qpc' = "loop"
    /\ UNCHANGED <<qsink, qflight, qchan, qstatus, qfull, staleRest>>

\* saveExecution and the deferred function of executeSteps.
StaleDeferred ==
    /\ engine = "stale"
    /\ qpc = "defer"
    /\ qchan' = FALSE
    /\ qpc' = "done"
    /\ UNCHANGED <<qi, qsink, qflight, qstatus, qfull, staleRest>>

\* The device answers the oldest command it has and ScriptEngine.HandleResponse
\* puts the response into the sink, or finds the sink full.
StaleResponse(st) ==
    /\ engine = "stale"
    /\ qflight # <<>>
    /\ qflight' = Tail(qflight)
    /\ LET resp == [id |-> Head(qflight), status |-> st]
       IN IF qchan /\ Len(qsink) < SinkCapacity
          THEN /\ qsink' = Append(qsink, resp)
               /\ UNCHANGED qfull
          ELSE /\ qfull' = IF qchan
                           THEN qfull \cup {[id |-> resp.id,
                                             current |-> StaleCurrent(resp.id)]}
                           ELSE qfull
               /\ UNCHANGED qsink
    /\ UNCHANGED <<qi, qpc, qchan, qstatus, staleRest>>

\* The device never answers the oldest command it has.
StaleSilence ==
    /\ engine = "stale"
    /\ qflight # <<>>
    /\ qflight' = Tail(qflight)
    /\ UNCHANGED <<qi, qpc, qsink, qchan, qstatus, qfull, staleRest>>

StaleInit ==
    /\ engine = "stale"
    /\ workload = [runs |-> 0, cancels |-> 0, rejects |-> 0]
    /\ EngineIdle
    /\ agent = "none"
    /\ AgentIdle
    /\ ExtraIdle

StaleNext ==
    \/ StaleExecuteScript
    \/ StaleLoop
    \/ StaleReceive
    \/ StaleTimeout
    \/ StaleDeferred
    \/ \E st \in {"success", "error"} : StaleResponse(st)
    \/ StaleSilence

StaleSpec == StaleInit /\ [][StaleNext]_vars

\* C40: with at most one response per command, the response to the command
\* the execution is waiting for is never dropped for a sink full of the
\* responses of earlier, timed-out commands.
C40_CurrentResponseNeverDropped ==
    \A d \in qfull : ~d.current

====
